---------------------------- MODULE Spec2Model ----------------------------
(***************************************************************************)
(* Model of roza-cli's attendance aggregation and prayer-status engine.    *)
(*                                                                         *)
(* Strings of the program are sequences of one-character strings, so that  *)
(* formatting, parsing and JavaScript's string comparison are modelled by  *)
(* what they do.  A date key "2026-02-19" is                               *)
(*   <<"2","0","2","6","-","0","2","-","1","9">>.                          *)
(* A Date object is the number of its local calendar day, counted from     *)
(* 0001-01-01 = 0 in the proleptic Gregorian calendar (earlier days are    *)
(* negative).                                                              *)
(***************************************************************************)
EXTENDS Integers, Sequences, FiniteSets, TLC

(***************************************************************************)
(* Bounds of the model.                                                    *)
(***************************************************************************)
\* rows handed to one aggregation call
MaxRows == 3
\* calendar days in each window that row dates are drawn from
WindowLen == 4
\* largest short --range value (in days) that is tried
MaxDays == 3
\* a long --range value (in days) that is tried as well
LongRange == 400000

(***************************************************************************)
(* Characters and strings.                                                 *)
(***************************************************************************)
Digit == <<"0", "1", "2", "3", "4", "5", "6", "7", "8", "9">>

DigitChars == {Digit[i] : i \in 1..10}

\* value of a decimal digit character
DigitVal(c) == (CHOOSE i \in 1..10 : Digit[i] = c) - 1

\* UTF-16 code unit of the characters that occur in the model's strings
Code(c) ==
  IF c \in DigitChars THEN 48 + DigitVal(c)
  ELSE CASE c = " " -> 32
         [] c = "(" -> 40
         [] c = ")" -> 41
         [] c = "-" -> 45
         [] c = ":" -> 58
         [] c = "B" -> 66
         [] c = "I" -> 73
         [] c = "W" -> 87
         [] c = "a" -> 97
         [] c = "g" -> 103
         [] c = "n" -> 110
         [] OTHER -> 120

RECURSIVE StrLess(_, _)
\* a < b on JavaScript strings: code units compared from the left, a proper
\* prefix is smaller
StrLess(a, b) ==
  IF b = << >> THEN FALSE
  ELSE IF a = << >> THEN TRUE
  ELSE IF Code(Head(a)) # Code(Head(b)) THEN Code(Head(a)) < Code(Head(b))
  ELSE StrLess(Tail(a), Tail(b))

\* a <= b on JavaScript strings
StrLeq(a, b) == a = b \/ StrLess(a, b)

RECURSIVE ToDigits(_)
\* String(n) for an integer n: a negative number has a leading minus sign
ToDigits(n) ==
  IF n < 0 THEN <<"-">> \o ToDigits(-n)
  ELSE IF n < 10 THEN <<Digit[n + 1]>>
  ELSE Append(ToDigits(n \div 10), Digit[(n % 10) + 1])

RECURSIVE PadStart(_, _, _)
\* s.padStart(len, c)
PadStart(s, len, c) == IF Len(s) >= len THEN s ELSE PadStart(<<c>> \o s, len, c)

RECURSIVE NumberOf(_)
\* Number(s) for a non-empty string of decimal digits
NumberOf(s) ==
  IF s = << >> THEN 0
  ELSE 10 * NumberOf(SubSeq(s, 1, Len(s) - 1)) + DigitVal(s[Len(s)])

\* index of the first occurrence of c in s, or Len(s) + 1
IndexOf(s, c) ==
  IF \E i \in 1..Len(s) : s[i] = c
  THEN CHOOSE i \in 1..Len(s) : s[i] = c /\ \A j \in 1..(i - 1) : s[j] # c
  ELSE Len(s) + 1

RECURSIVE Split(_, _)
\* s.split(c)
Split(s, c) ==
  LET i == IndexOf(s, c)
  IN IF i > Len(s) THEN <<s>>
     ELSE <<SubSeq(s, 1, i - 1)>> \o Split(SubSeq(s, i + 1, Len(s)), c)

(***************************************************************************)
(* The Date object: local calendar days.                                   *)
(***************************************************************************)
IsLeap(y) == (y % 4 = 0 /\ y % 100 # 0) \/ y % 400 = 0

DaysInMonth(y, m) ==
  IF m = 2 THEN (IF IsLeap(y) THEN 29 ELSE 28)
  ELSE IF m \in {4, 6, 9, 11} THEN 30 ELSE 31

\* days from 0001-01-01 to the first day of year y
DaysBeforeYear(y) ==
  365 * (y - 1) + ((y - 1) \div 4) - ((y - 1) \div 100) + ((y - 1) \div 400)

RECURSIVE DaysBeforeMonth(_, _)
\* days from the first day of year y to the first day of its month m (1..12)
DaysBeforeMonth(y, m) ==
  IF m = 1 THEN 0 ELSE DaysBeforeMonth(y, m - 1) + DaysInMonth(y, m - 1)

\* new Date(year, monthIndex, day): years 0..99 mean 1900..1999, and a
\* month index or a day outside its range carries over
NewDate(year, monthIndex, day) ==
  LET full == IF year \in 0..99 THEN 1900 + year ELSE year
      y    == full + (monthIndex \div 12)
      m    == (monthIndex % 12) + 1
  IN DaysBeforeYear(y) + DaysBeforeMonth(y, m) + (day - 1)

RECURSIVE YearOf(_, _)
\* the year that contains day number n, searched upwards from the guess y
YearOf(n, y) ==
  IF DaysBeforeYear(y + 1) <= n THEN YearOf(n, y + 1)
  ELSE IF DaysBeforeYear(y) > n THEN YearOf(n, y - 1)
  ELSE y

\* date.getFullYear()
GetFullYear(n) == YearOf(n, (n \div 366) + 1)

RECURSIVE MonthOf(_, _, _)
\* the month (1..12) of year y that contains the day with index r in the year
MonthOf(y, r, m) ==
  IF r < DaysInMonth(y, m) THEN m ELSE MonthOf(y, r - DaysInMonth(y, m), m + 1)

\* date.getMonth(), an index 0..11
GetMonth(n) ==
  LET y == GetFullYear(n) IN MonthOf(y, n - DaysBeforeYear(y), 1) - 1

\* date.getDate(), 1..31
GetDate(n) ==
  LET y == GetFullYear(n)
      m == GetMonth(n) + 1
  IN n - DaysBeforeYear(y) - DaysBeforeMonth(y, m) + 1

(***************************************************************************)
(* utils/ramadan-utils.ts and utils/date-utils.ts                          *)
(***************************************************************************)
\* `${year}-${MM}-${DD}` of a Date's local fields: month and day are padded
\* to two digits, the year is written as it is
KeyOfDate(n) ==
  ToDigits(GetFullYear(n)) \o <<"-">>
    \o PadStart(ToDigits(GetMonth(n) + 1), 2, "0") \o <<"-">>
    \o PadStart(ToDigits(GetDate(n)), 2, "0")

\* dateKey.split('-').map(Number) and new Date(year, month - 1, day)
DateOfKey(dateKey) ==
  LET parts == Split(dateKey, "-")
  IN NewDate(NumberOf(parts[1]), NumberOf(parts[2]) - 1, NumberOf(parts[3]))

\* addDays(dateKey, days)
addDays(dateKey, days) == KeyOfDate(DateOfKey(dateKey) + days)

\* extractTime(value): value.split(' ')[0]
extractTime(value) == Split(value, " ")[1]

\* parseTimeToMinutes with the pattern required to be the whole value
parseTimeToMinutesWholeValue(value) ==
  LET IsDigit(i) == i <= Len(value) /\ value[i] \in DigitChars
      IsColon(i) == i <= Len(value) /\ value[i] = ":"
  IN IF Len(value) = 5 /\ IsDigit(1) /\ IsDigit(2) /\ IsColon(3)
          /\ IsDigit(4) /\ IsDigit(5)
     THEN {NumberOf(SubSeq(value, 1, 2)) * 60 + NumberOf(SubSeq(value, 4, 5))}
     ELSE IF Len(value) = 4 /\ IsDigit(1) /\ IsColon(2) /\ IsDigit(3)
             /\ IsDigit(4)
     THEN {NumberOf(SubSeq(value, 1, 1)) * 60 + NumberOf(SubSeq(value, 3, 4))}
     ELSE {}

\* parseTimeToMinutes(value): /^(\d{1,2}):(\d{2})/ on the extracted time;
\* the result is {minutes}, or {} for null
parseTimeToMinutes(value) ==
  LET t == extractTime(value)
      IsDigit(i) == i <= Len(t) /\ t[i] \in DigitChars
      IsColon(i) == i <= Len(t) /\ t[i] = ":"
  IN IF IsDigit(1) /\ IsDigit(2) /\ IsColon(3) /\ IsDigit(4) /\ IsDigit(5)
     THEN {NumberOf(SubSeq(t, 1, 2)) * 60 + NumberOf(SubSeq(t, 4, 5))}
     ELSE IF IsDigit(1) /\ IsColon(2) /\ IsDigit(3) /\ IsDigit(4)
     THEN {NumberOf(SubSeq(t, 1, 1)) * 60 + NumberOf(SubSeq(t, 3, 4))}
     ELSE {}

(***************************************************************************)
(* lib/store.ts: the shape of a stored day.  An optional field is a set    *)
(* with at most one element; a prayers map is a function defined on the    *)
(* prayers that have an entry.                                             *)
(***************************************************************************)
PRAYERS == <<"Fajr", "Dhuhr", "Asr", "Maghrib", "Isha">>

\* row.prayers[prayer] taken as a condition: an absent entry is not completed
Done(row, prayer) == prayer \in DOMAIN row.prayers /\ row.prayers[prayer]

\* row.fasted taken as a condition: absent and false are both not fasted
Fasted(row) == TRUE \in row.fasted

(***************************************************************************)
(* Array helpers.                                                          *)
(***************************************************************************)
RECURSIVE SumSeq(_)
\* the sum of a sequence of numbers, added from the left
SumSeq(ns) ==
  IF ns = << >> THEN 0 ELSE SumSeq(SubSeq(ns, 1, Len(ns) - 1)) + ns[Len(ns)]

\* arr.reduce((sum, x) => sum + f(x), 0)
SumOver(arr, f(_)) == SumSeq([i \in 1..Len(arr) |-> f(arr[i])])

\* arr.filter(keep)
Filter(arr, keep(_)) == SelectSeq(arr, keep)

\* a.date.localeCompare(b.date) < 0; on strings of digits and hyphens the
\* collation order is the order of the code units
DateBefore(a, b) == StrLess(a.date, b.date)

RECURSIVE InsertByDate(_, _)
InsertByDate(sorted, row) ==
  IF sorted = << >> THEN <<row>>
  ELSE IF DateBefore(row, sorted[Len(sorted)])
       THEN Append(InsertByDate(SubSeq(sorted, 1, Len(sorted) - 1), row),
                   sorted[Len(sorted)])
       ELSE Append(sorted, row)

RECURSIVE SortByDate(_)
\* [...rows].sort((a, b) => a.date.localeCompare(b.date)), a stable sort
SortByDate(rows) ==
  IF rows = << >> THEN << >>
  ELSE InsertByDate(SortByDate(SubSeq(rows, 1, Len(rows) - 1)), rows[Len(rows)])

\* Math.round((completed / total) * 100) for 0 <= completed and 0 < total:
\* the nearest integer, a half rounding up.  (The double product equals the
\* exact quotient closely enough for every total below 40.)
RoundPercent(completed, total) == (200 * completed + total) \div (2 * total)

\* Number((completed / totalDays).toFixed(2)), held in hundredths
RoundHundredths(completed, totalDays) ==
  (200 * completed + totalDays) \div (2 * totalDays)

(***************************************************************************)
(* lib/recap.ts                                                            *)
(***************************************************************************)
\* CompletedCount with every recorded entry counted, whatever its value
CompletedCountEntries(row) ==
  LET One(prayer) == IF prayer \in DOMAIN row.prayers THEN 1 ELSE 0
  IN SumOver(PRAYERS, One)

\* PRAYERS.reduce((inner, prayer) => inner + (row.prayers[prayer] ? 1 : 0), 0)
CompletedCount(row) ==
  LET One(prayer) == IF Done(row, prayer) THEN 1 ELSE 0
  IN SumOver(PRAYERS, One)

\* calcSummary with a day of four prayers taken as perfect
calcSummaryFourIsPerfect(rows) ==
  LET totalDays == Len(rows)
      total     == totalDays * Len(PRAYERS)
      completed == SumOver(rows, CompletedCount)
      Active(row)  == IF CompletedCount(row) > 0 THEN 1 ELSE 0
      Perfect(row) == IF CompletedCount(row) >= Len(PRAYERS) - 1 THEN 1 ELSE 0
  IN [totalDays     |-> totalDays,
      completed     |-> completed,
      total         |-> total,
      percent       |-> IF total > 0 THEN RoundPercent(completed, total) ELSE 0,
      activeDays    |-> SumOver(rows, Active),
      perfectDays   |-> SumOver(rows, Perfect),
      averagePerDay |-> IF totalDays > 0 THEN RoundHundredths(completed, totalDays)
                        ELSE 0]

calcSummary(rows) ==
  LET totalDays == Len(rows)
      total     == totalDays * Len(PRAYERS)
      completed == SumOver(rows, CompletedCount)
      Active(row)  == IF CompletedCount(row) > 0 THEN 1 ELSE 0
      Perfect(row) == IF CompletedCount(row) = Len(PRAYERS) THEN 1 ELSE 0
  IN [totalDays     |-> totalDays,
      completed     |-> completed,
      total         |-> total,
      percent       |-> IF total > 0 THEN RoundPercent(completed, total) ELSE 0,
      activeDays    |-> SumOver(rows, Active),
      perfectDays   |-> SumOver(rows, Perfect),
      averagePerDay |-> IF totalDays > 0 THEN RoundHundredths(completed, totalDays)
                        ELSE 0]

(***************************************************************************)
(* commands/recap.ts                                                       *)
(***************************************************************************)
filterByDays(rows, days) ==
  IF Len(rows) = 0 THEN rows
  ELSE LET sorted == SortByDate(rows)
           end    == sorted[Len(sorted)].date
           start  == addDays(end, -(days - 1))
           InWindow(row) == StrLeq(start, row.date) /\ StrLeq(row.date, end)
       IN Filter(sorted, InWindow)

\* map.get(cursor) of new Map(sorted.map((row) => [row.date, row])): a later
\* entry of the same key replaces an earlier one
MapGet(sorted, cursor) ==
  LET hits == {i \in 1..Len(sorted) : sorted[i].date = cursor}
  IN IF hits = {} THEN {}
     ELSE {sorted[CHOOSE i \in hits : \A j \in hits : j <= i]}

RECURSIVE ExpandLoop(_, _, _, _)
\* the while (cursor <= end) loop of expandAttendance
ExpandLoop(sorted, cursor, end, expanded) ==
  IF StrLeq(cursor, end)
  THEN LET existing == MapGet(sorted, cursor)
           pushed   == IF existing # {} THEN CHOOSE row \in existing : TRUE
                       ELSE [date |-> cursor, prayers |-> << >>, fasted |-> {},
                             updatedAt |-> ""]
       IN ExpandLoop(sorted, addDays(cursor, 1), end, Append(expanded, pushed))
  ELSE expanded

expandAttendance(rows) ==
  IF Len(rows) = 0 THEN rows
  ELSE LET sorted == SortByDate(rows)
       IN ExpandLoop(sorted, sorted[1].date, sorted[Len(sorted)].date, << >>)

\* filterRowsUntil with the cutoff day itself left out
filterRowsUntilStrict(rows, cutoffDateKey) ==
  LET Before(row) == StrLess(row.date, cutoffDateKey)
  IN Filter(rows, Before)

filterRowsUntil(rows, cutoffDateKey) ==
  LET UpTo(row) == StrLeq(row.date, cutoffDateKey)
  IN Filter(rows, UpTo)

calcPrayerRate(rows, cutoffDateKey) ==
  LET scoped == filterRowsUntil(rows, cutoffDateKey)
      Perfect(row) == IF \A i \in 1..Len(PRAYERS) : Done(row, PRAYERS[i])
                      THEN 1 ELSE 0
      completed == SumOver(scoped, Perfect)
      total     == Len(scoped)
  IN [percent   |-> IF total > 0 THEN RoundPercent(completed, total) ELSE 0,
      completed |-> completed,
      total     |-> total]

\* calcFastingRate with an unrecorded day taken as fasted
calcFastingRateNotFalse(rows, cutoffDateKey) ==
  LET scoped == filterRowsUntil(rows, cutoffDateKey)
      One(row)  == IF FALSE \notin row.fasted THEN 1 ELSE 0
      completed == SumOver(scoped, One)
      total     == Len(scoped)
  IN [percent   |-> IF total > 0 THEN RoundPercent(completed, total) ELSE 0,
      completed |-> completed,
      total     |-> total]

calcFastingRate(rows, cutoffDateKey) ==
  LET scoped == filterRowsUntil(rows, cutoffDateKey)
      One(row)  == IF Fasted(row) THEN 1 ELSE 0
      completed == SumOver(scoped, One)
      total     == Len(scoped)
  IN [percent   |-> IF total > 0 THEN RoundPercent(completed, total) ELSE 0,
      completed |-> completed,
      total     |-> total]

(***************************************************************************)
(* State.                                                                  *)
(*   rows        the attendance rows handed to the aggregation functions   *)
(*   agg         the last aggregation call: its name, arguments and result *)
(*   timings     the day's timing table shown by the schedule              *)
(*   nowMinutes  the current minutes of the day in the resolved timezone   *)
(*   shown       what the daily schedule shows of the prayer status        *)
(*   env         what the win-rate cutoff reads: the stored config, the    *)
(*               clock, the process's timezone and the outcome of the      *)
(*               fetch of today's timings                                  *)
(*   cutoff      the resolved win-rate cutoff date key                     *)
(*   store       the persisted store: the user config and the attendance   *)
(*               object, its entries in insertion order                    *)
(*   clock       what new Date() reads: the instant, the process's         *)
(*               timezone, and the number of commands run so far           *)
(*   cmd         the last logging command: its name, the store it started  *)
(*               from, what the user answered, the setAttendance call it   *)
(*               made and how it ended                                     *)
(*   run         a history, recap, schedule or backfill command that is    *)
(*               running: its options, the requests it has in flight and   *)
(*               the position it is suspended at                           *)
(*   term        what that command has shown on the terminal, the exit     *)
(*               code of the process and where its error was handled       *)
(*   calc        a date or time function applied to its arguments          *)
(*   menu        the processes of the interactive menu: what the parent    *)
(*               shows, the child it waits for and what has happened       *)
(***************************************************************************)
VARIABLES rows, agg, timings, nowMinutes, shown, env, cutoff,
          store, clock, cmd, run, term, calc, menu

vars == <<rows, agg, timings, nowMinutes, shown, env, cutoff,
          store, clock, cmd, run, term, calc, menu>>

recapVars == <<rows, agg>>

scheduleVars == <<timings, nowMinutes, shown>>

cutoffVars == <<env, cutoff>>

storeVars == <<store, clock, cmd>>

runVars == <<run, term>>

calcVars == <<calc>>

menuVars == <<menu>>

\* no aggregation is running
RecapIdle == rows = << >> /\ agg = [op |-> "idle"]

\* no schedule is being rendered
ScheduleIdle == timings = << >> /\ nowMinutes = 0 /\ shown = [op |-> "idle"]

\* no cutoff is being resolved
CutoffIdle == env = << >> /\ cutoff = [op |-> "idle"]

\* no logging command is running
StoreIdle == store = << >> /\ clock = << >> /\ cmd = [op |-> "idle"]

\* no history, recap, schedule or backfill command is running
RunIdle == run = [pc |-> "idle"] /\ term = << >>

\* no date or time function is applied
CalcIdle == calc = [op |-> "idle"]

\* no interactive menu is running
MenuIdle == menu = [pc |-> "idle"]

(***************************************************************************)
(* Inputs.  Stored date keys are the canonical YYYY-MM-DD strings that the *)
(* commands accept; the rows of one call lie in one window of consecutive  *)
(* days.  The windows cross a year end below year 1000, a leap day and a   *)
(* year end.                                                               *)
(***************************************************************************)
\* the canonical key of day number n: four, two and two digits
CanonKey(n) ==
  PadStart(ToDigits(GetFullYear(n)), 4, "0") \o <<"-">>
    \o PadStart(ToDigits(GetMonth(n) + 1), 2, "0") \o <<"-">>
    \o PadStart(ToDigits(GetDate(n)), 2, "0")

\* first days of the windows: 0999-12-30, 2024-02-27, 2025-12-30
WindowStarts == {NewDate(999, 11, 30), NewDate(2024, 1, 27), NewDate(2025, 11, 30)}

WindowDays(w) == w..(w + WindowLen - 1)

AllPrayers == {PRAYERS[i] : i \in 1..Len(PRAYERS)}

\* the recorded days that are tried: a perfect day without a fasting answer,
\* a fasted day with four prayers and no entry for the fifth, and a day
\* recorded as not fasted whose only entry is a missed prayer
RowKinds ==
  { [prayers |-> [p \in AllPrayers |-> TRUE], fasted |-> {},
     updatedAt |-> "2026-03-01T10:00:00.000Z"],
    [prayers |-> [p \in AllPrayers \ {"Maghrib"} |-> TRUE], fasted |-> {TRUE},
     updatedAt |-> "2026-03-02T10:00:00.000Z"],
    [prayers |-> [p \in {"Fajr"} |-> FALSE], fasted |-> {FALSE},
     updatedAt |-> "2026-03-03T10:00:00.000Z"] }

MakeRow(n, kind) ==
  [date |-> CanonKey(n), prayers |-> kind.prayers, fasted |-> kind.fasted,
   updatedAt |-> kind.updatedAt]

Reverse(s) == [i \in 1..Len(s) |-> s[Len(s) + 1 - i]]

\* lists of at most MaxRows rows of distinct days of window w, ascending
AscendingLists(w) ==
  UNION { { [i \in 1..k |-> MakeRow(ds[i], ks[i])] :
              ds \in {d \in [1..k -> WindowDays(w)] :
                        \A i \in 1..(k - 1) : d[i] < d[i + 1]},
              ks \in [1..k -> RowKinds] } : k \in 0..MaxRows }

\* the lists in date order, as listAttendance returns them, and reversed
RowLists ==
  UNION { AscendingLists(w) \cup {Reverse(l) : l \in AscendingLists(w)} :
            w \in WindowStarts }

\* the window a list lies in (the first one for the empty list)
WindowOf(list) ==
  IF list = << >> THEN CHOOSE w \in WindowStarts : \A v \in WindowStarts : w <= v
  ELSE CHOOSE w \in WindowStarts :
         list[1].date \in {CanonKey(n) : n \in WindowDays(w)}

\* cutoff date keys that are tried with a list: the days of its window
Cutoffs(list) == {CanonKey(n) : n \in WindowDays(WindowOf(list))}

\* --range values that parseRange can return and that are tried
RangeDays == (1..MaxDays) \cup {LongRange}

(***************************************************************************)
(* The aggregation functions applied to the rows: one call per run.        *)
(***************************************************************************)
InitRecap ==
  /\ rows \in RowLists
  /\ agg = [op |-> "none"]
  /\ ScheduleIdle
  /\ CutoffIdle
  /\ StoreIdle
  /\ RunIdle
  /\ CalcIdle
  /\ MenuIdle

CalcSummary ==
  /\ agg.op = "none"
  /\ agg' = [op |-> "calcSummary", result |-> calcSummary(rows)]
  /\ UNCHANGED <<rows, scheduleVars, cutoffVars, storeVars, runVars,
                 calcVars, menuVars>>

CalcPrayerRate ==
  \E cutoffDateKey \in Cutoffs(rows) :
    /\ agg.op = "none"
    /\ agg' = [op |-> "calcPrayerRate", cutoff |-> cutoffDateKey,
               result |-> calcPrayerRate(rows, cutoffDateKey)]
    /\ UNCHANGED <<rows, scheduleVars, cutoffVars, storeVars, runVars,
                 calcVars, menuVars>>

CalcFastingRate ==
  \E cutoffDateKey \in Cutoffs(rows) :
    /\ agg.op = "none"
    /\ agg' = [op |-> "calcFastingRate", cutoff |-> cutoffDateKey,
               result |-> calcFastingRate(rows, cutoffDateKey)]
    /\ UNCHANGED <<rows, scheduleVars, cutoffVars, storeVars, runVars,
                 calcVars, menuVars>>

FilterByDays ==
  \E days \in RangeDays :
    /\ agg.op = "none"
    /\ agg' = [op |-> "filterByDays", days |-> days,
               result |-> filterByDays(rows, days)]
    /\ UNCHANGED <<rows, scheduleVars, cutoffVars, storeVars, runVars,
                 calcVars, menuVars>>

ExpandAttendance ==
  /\ agg.op = "none"
  /\ agg' = [op |-> "expandAttendance", result |-> expandAttendance(rows)]
  /\ UNCHANGED <<rows, scheduleVars, cutoffVars, storeVars, runVars,
                 calcVars, menuVars>>

NextRecap ==
  \/ CalcSummary
  \/ CalcPrayerRate
  \/ CalcFastingRate
  \/ FilterByDays
  \/ ExpandAttendance

SpecRecap == InitRecap /\ [][NextRecap]_vars

(***************************************************************************)
(* commands/schedule.ts: the prayer status of the daily schedule.  An      *)
(* optional value is a set with at most one element.                       *)
(***************************************************************************)
PRAYER_ORDER == <<"Fajr", "Dhuhr", "Asr", "Maghrib", "Isha">>

\* const minutesByPrayer = { Fajr: parseTimeToMinutes(timings.Fajr), ... }
MinutesByPrayer(t) == [p \in DOMAIN t |-> parseTimeToMinutes(t[p])]

\* the minutes of a prayer whose time parsed
MinutesOf(minutesByPrayer, prayer) == CHOOSE m \in minutesByPrayer[prayer] : TRUE

\* FindNext with a prayer at the current minute taken as still to come
FindNextInclusive(minutesByPrayer, now) ==
  LET later == {i \in 1..Len(PRAYER_ORDER) :
                  /\ minutesByPrayer[PRAYER_ORDER[i]] # {}
                  /\ now <= MinutesOf(minutesByPrayer, PRAYER_ORDER[i])}
  IN IF later = {} THEN [next |-> {}, nextMinutes |-> {}]
     ELSE LET i == CHOOSE i \in later : \A j \in later : i <= j
          IN [next |-> {PRAYER_ORDER[i]},
              nextMinutes |-> {MinutesOf(minutesByPrayer, PRAYER_ORDER[i])}]

\* the first loop of computePrayerStatus: it skips a prayer whose minutes are
\* null and stops at the first prayer with nowMinutes < minutes
FindNext(minutesByPrayer, now) ==
  LET later == {i \in 1..Len(PRAYER_ORDER) :
                  /\ minutesByPrayer[PRAYER_ORDER[i]] # {}
                  /\ now < MinutesOf(minutesByPrayer, PRAYER_ORDER[i])}
  IN IF later = {} THEN [next |-> {}, nextMinutes |-> {}]
     ELSE LET i == CHOOSE i \in later : \A j \in later : i <= j
          IN [next |-> {PRAYER_ORDER[i]},
              nextMinutes |-> {MinutesOf(minutesByPrayer, PRAYER_ORDER[i])}]

\* WrapToFajr with tomorrow's Fajr given today's minute value
WrapToFajrSameDay(minutesByPrayer, found) ==
  IF found.next = {} /\ minutesByPrayer["Fajr"] # {}
  THEN [next |-> {"Fajr"}, nextMinutes |-> {MinutesOf(minutesByPrayer, "Fajr")}]
  ELSE found

\* if (!next) { ... next = 'Fajr'; nextMinutes = fajrMinutes + 24 * 60 }
WrapToFajr(minutesByPrayer, found) ==
  IF found.next = {} /\ minutesByPrayer["Fajr"] # {}
  THEN [next |-> {"Fajr"},
        nextMinutes |-> {MinutesOf(minutesByPrayer, "Fajr") + 24 * 60}]
  ELSE found

\* FindCurrent with a prayer at the current minute not yet reached
FindCurrentStrict(minutesByPrayer, now) ==
  LET reached == {i \in 1..Len(PRAYER_ORDER) :
                    /\ minutesByPrayer[PRAYER_ORDER[i]] # {}
                    /\ now > MinutesOf(minutesByPrayer, PRAYER_ORDER[i])}
  IN IF reached = {} THEN {}
     ELSE {PRAYER_ORDER[CHOOSE i \in reached : \A j \in reached : j <= i]}

\* the second loop of computePrayerStatus: every prayer with
\* nowMinutes >= minutes overwrites current, so the last one stays
FindCurrent(minutesByPrayer, now) ==
  LET reached == {i \in 1..Len(PRAYER_ORDER) :
                    /\ minutesByPrayer[PRAYER_ORDER[i]] # {}
                    /\ now >= MinutesOf(minutesByPrayer, PRAYER_ORDER[i])}
  IN IF reached = {} THEN {}
     ELSE {PRAYER_ORDER[CHOOSE i \in reached : \A j \in reached : j <= i]}

\* computePrayerStatus without the wrap to tomorrow's Fajr
computePrayerStatusNoWrap(t, now) ==
  LET minutesByPrayer == MinutesByPrayer(t)
      found == FindNext(minutesByPrayer, now)
  IN [current     |-> FindCurrent(minutesByPrayer, now),
      next        |-> found.next,
      nextTime    |-> {extractTime(t[p]) : p \in found.next},
      minutesAway |-> {m - now : m \in found.nextMinutes}]

\* computePrayerStatus(timings, nowMinutes)
computePrayerStatus(t, now) ==
  LET minutesByPrayer == MinutesByPrayer(t)
      found == WrapToFajr(minutesByPrayer, FindNext(minutesByPrayer, now))
  IN [current     |-> FindCurrent(minutesByPrayer, now),
      next        |-> found.next,
      nextTime    |-> {extractTime(t[p]) : p \in found.next},
      minutesAway |-> {m - now : m \in found.nextMinutes}]

\* formatDuration(totalMinutes): '--', `${hours}h ${remainder}m` or
\* `${remainder}m`, with a negative number of minutes shown as 0
formatDuration(totalMinutes) ==
  IF totalMinutes = {} THEN <<"-", "-">>
  ELSE LET given     == CHOOSE m \in totalMinutes : TRUE
           minutes   == IF given > 0 THEN given ELSE 0
           hours     == minutes \div 60
           remainder == minutes % 60
       IN IF hours > 0
          THEN ToDigits(hours) \o <<"h", " ">> \o ToDigits(remainder) \o <<"m">>
          ELSE ToDigits(remainder) \o <<"m">>

\* the current and next labels of renderDailySchedule; a label is the
\* sequence of the parts that the template joins
renderDailySchedule(t, now) ==
  LET prayerStatus == computePrayerStatus(t, now)
  IN [op           |-> "renderDailySchedule",
      prayerStatus |-> prayerStatus,
      currentLabel |-> IF prayerStatus.current # {}
                       THEN LET c == CHOOSE p \in prayerStatus.current : TRUE
                            IN <<c, extractTime(t[c])>>
                       ELSE <<"Night">>,
      nextLabel    |-> IF /\ prayerStatus.next # {}
                          /\ prayerStatus.nextTime # {<< >>}
                       THEN <<CHOOSE p \in prayerStatus.next : TRUE,
                              CHOOSE x \in prayerStatus.nextTime : TRUE,
                              formatDuration(prayerStatus.minutesAway)>>
                       ELSE <<"--">>]

(***************************************************************************)
(* Inputs of the schedule: per prayer the time strings that are tried, and *)
(* the minutes of the day around every time of the table and at each hour. *)
(***************************************************************************)
TimeChoices ==
  [Fajr    |-> {<<"0", "5", ":", "0", "0">>, <<"4", ":", "4", "5", " ", "(", "W", "I", "B", ")">>, <<"g", "a", "r", "b", "a", "g", "e">>},
   Dhuhr   |-> {<<"1", "2", ":", "0", "0">>, << >>},
   Asr     |-> {<<"1", "5", ":", "3", "0", " ", "(", "W", "I", "B", ")">>, <<"n", "/", "a">>},
   Maghrib |-> {<<"1", "8", ":", "0", "0">>, <<"-">>},
   Isha    |-> {<<"1", "9", ":", "1", "5">>, <<"0", "0", ":", "1", "0">>, <<"g", "a", "r", "b", "a", "g", "e">>}]

TimingTables ==
  {t \in [DOMAIN TimeChoices -> UNION {TimeChoices[p] : p \in DOMAIN TimeChoices}] :
     \A p \in DOMAIN TimeChoices : t[p] \in TimeChoices[p]}

MinutesOfDay == 0..(24 * 60 - 1)

NowChoices(t) ==
  MinutesOfDay \cap
    ({0, 24 * 60 - 1}
       \cup {60 * h : h \in 0..23}
       \cup UNION {{m - 1, m, m + 1} :
                     m \in UNION {parseTimeToMinutes(t[p]) : p \in DOMAIN t}})

InitSchedule ==
  /\ timings \in TimingTables
  /\ nowMinutes \in NowChoices(timings)
  /\ shown = [op |-> "none"]
  /\ RecapIdle
  /\ CutoffIdle
  /\ StoreIdle
  /\ RunIdle
  /\ CalcIdle
  /\ MenuIdle

RenderDailySchedule ==
  /\ shown.op = "none"
  /\ shown' = renderDailySchedule(timings, nowMinutes)
  /\ UNCHANGED <<timings, nowMinutes, recapVars, cutoffVars, storeVars, runVars, calcVars, menuVars>>

NextSchedule == RenderDailySchedule

SpecSchedule == InitSchedule /\ [][NextSchedule]_vars

(***************************************************************************)
(* commands/recap.ts: the win-rate cutoff.  The clock is an instant in     *)
(* minutes since 0001-01-01T00:00Z; a timezone is a name, and the names    *)
(* that Intl resolves have an offset from UTC in minutes.                  *)
(***************************************************************************)
ZoneOffsets ==
  [Jakarta |-> 420, New_York |-> -300, UTC |-> 0]

\* the offset Intl.DateTimeFormat applies for a timezone option, {} when the
\* option is absent or the constructor throws on the name
IntlOffset(timezone) == {ZoneOffsets[z] : z \in timezone \cap DOMAIN ZoneOffsets}

\* the local minutes count that the formatter, or else the Date getters of
\* the process's timezone, read the fields from
FieldsIn(e, timezone) ==
  IF IntlOffset(timezone) # {}
  THEN e.now + (CHOOSE o \in IntlOffset(timezone) : TRUE)
  ELSE e.now + ZoneOffsets[e.localZone]

\* formatDateKey(new Date(), timezone)
formatDateKey(e, timezone) == KeyOfDate(FieldsIn(e, timezone) \div (24 * 60))

\* getTodayDateKey(timezone)
getTodayDateKey(e, timezone) == formatDateKey(e, timezone)

\* getNowMinutes(timezone): hour * 60 + minute
getNowMinutes(e, timezone) == FieldsIn(e, timezone) % (24 * 60)

\* resolveTodayTimings: {} for null when the request fails, else the timings
\* and the timezone of the response
resolveTodayTimings(e) ==
  IF e.fetch.ok
  THEN {[timings |-> e.fetch.timings, timezone |-> e.fetch.timezone]}
  ELSE {}

\* config.timezone ?? timing.timezone
Coalesce(first, second) == IF first # {} THEN first ELSE second

\* resolveWinRateCutoffDateKey with the minute of Isha itself not yet past
resolveWinRateCutoffDateKeyAfterIsha(e) ==
  LET todayKey     == getTodayDateKey(e, e.config.timezone)
      yesterdayKey == addDays(todayKey, -1)
      timing       == resolveTodayTimings(e)
  IN IF e.config.location = {} THEN yesterdayKey
     ELSE IF timing = {} THEN yesterdayKey
     ELSE LET data        == CHOOSE d \in timing : TRUE
              now         == getNowMinutes(e, Coalesce(e.config.timezone,
                                                       {data.timezone}))
              ishaMinutes == parseTimeToMinutes(data.timings.Isha)
          IN IF ishaMinutes = {} THEN yesterdayKey
             ELSE IF now > (CHOOSE m \in ishaMinutes : TRUE) THEN todayKey
             ELSE yesterdayKey

resolveWinRateCutoffDateKey(e) ==
  LET todayKey     == getTodayDateKey(e, e.config.timezone)
      yesterdayKey == addDays(todayKey, -1)
      timing       == resolveTodayTimings(e)
  IN IF e.config.location = {} THEN yesterdayKey
     ELSE IF timing = {} THEN yesterdayKey
     ELSE LET data        == CHOOSE d \in timing : TRUE
              now         == getNowMinutes(e, Coalesce(e.config.timezone,
                                                       {data.timezone}))
              ishaMinutes == parseTimeToMinutes(data.timings.Isha)
          IN IF ishaMinutes = {} THEN yesterdayKey
             ELSE IF now >= (CHOOSE m \in ishaMinutes : TRUE) THEN todayKey
             ELSE yesterdayKey

(***************************************************************************)
(* Inputs of the cutoff.                                                   *)
(***************************************************************************)
\* the stored config: with or without a location, and without a timezone
\* override, with one that resolves, or with a name that Intl rejects
Configs ==
  [location : {{}, {"Jakarta, Indonesia"}},
   timezone : {{}, {"Jakarta"}, {"UTC"}, {"Nowhere"}}]

\* instants on 2026-02-28 and 2026-03-01 (UTC): midnight, the minute before
\* and the minute of 19:15 in Jakarta, 17:00 (midnight in Jakarta), 19:15
\* and the last minute of the day
Instants ==
  {day * (24 * 60) + minute :
     day \in {NewDate(2026, 1, 28), NewDate(2026, 2, 1)},
     minute \in {0, 734, 735, 1020, 1155, 1439}}

\* outcomes of the fetch of today's timings
Fetches ==
  {[ok |-> FALSE]}
    \cup [ok : {TRUE},
          timings : [Isha : {<<"1", "9", ":", "1", "5">>, <<"1", "9", ":", "1", "5", " ", "(", "W", "I", "B", ")">>, <<"g", "a", "r", "b", "a", "g", "e">>}],
          timezone : {"Jakarta", "UTC"}]

Envs ==
  [config : Configs, now : Instants, localZone : {"New_York", "Jakarta"},
   fetch : Fetches]

InitCutoff ==
  /\ env \in Envs
  /\ cutoff = [op |-> "none"]
  /\ RecapIdle
  /\ ScheduleIdle
  /\ StoreIdle
  /\ RunIdle
  /\ CalcIdle
  /\ MenuIdle

ResolveWinRateCutoffDateKey ==
  /\ cutoff.op = "none"
  /\ cutoff' = [op |-> "resolveWinRateCutoffDateKey",
                result |-> resolveWinRateCutoffDateKey(env)]
  /\ UNCHANGED <<env, recapVars, scheduleVars, storeVars, runVars, calcVars, menuVars>>

NextCutoff == ResolveWinRateCutoffDateKey

SpecCutoff == InitCutoff /\ [][NextCutoff]_vars

(***************************************************************************)
(* lib/store.ts: the attendance store.  The attendance object is the       *)
(* sequence of its entries [key, value] in insertion order, which is the   *)
(* order Object.values reports for keys that are not array indices.        *)
(***************************************************************************)
\* most logging commands in one run of the model
MaxCommands == 2

\* readState(): the stored object as the schema parses it; what the program
\* itself wrote satisfies the schema
readState(s) == s

\* getConfig()
getConfig(s) ==
  LET state == readState(s)
  IN [location |-> state.location, method |-> state.method,
      school |-> state.school, timezone |-> state.timezone]

\* state.attendance?.[dateKey]: {} for undefined
Lookup(attendance, dateKey) ==
  {attendance[i].value : i \in {j \in 1..Len(attendance) :
                                  attendance[j].key = dateKey}}

\* { ...attendance, [dateKey]: value }: an existing key keeps its place
Assign(attendance, dateKey, value) ==
  IF \E i \in 1..Len(attendance) : attendance[i].key = dateKey
  THEN [i \in 1..Len(attendance) |->
          IF attendance[i].key = dateKey
          THEN [key |-> dateKey, value |-> value] ELSE attendance[i]]
  ELSE Append(attendance, [key |-> dateKey, value |-> value])

\* getAttendance(dateKey)
getAttendance(s, dateKey) == Lookup(readState(s).attendance, dateKey)

\* Object.values(state.attendance ?? {})
ObjectValues(attendance) == [i \in 1..Len(attendance) |-> attendance[i].value]

\* listAttendance()
listAttendance(s) == SortByDate(ObjectValues(readState(s).attendance))

\* { ...existing?.prayers, ...prayers } with the stored entries winning
MergePrayersKeepOld(existing, prayers) ==
  LET old == IF existing = {} THEN << >>
             ELSE (CHOOSE r \in existing : TRUE).prayers
  IN [p \in DOMAIN old \cup DOMAIN prayers |->
        IF p \in DOMAIN old THEN old[p] ELSE prayers[p]]

\* { ...existing?.prayers, ...prayers }
MergePrayers(existing, prayers) ==
  LET old == IF existing = {} THEN << >>
             ELSE (CHOOSE r \in existing : TRUE).prayers
  IN [p \in DOMAIN old \cup DOMAIN prayers |->
        IF p \in DOMAIN prayers THEN prayers[p] ELSE old[p]]

\* the fasted field of the next record: the argument when it is provided,
\* otherwise the prior value
MergeFasted(existing, fasted) ==
  IF fasted # {} THEN fasted
  ELSE IF existing = {} THEN {}
  ELSE (CHOOSE r \in existing : TRUE).fasted

\* new Date().toISOString() at an instant in minutes
toISOString(now) ==
  LET minute == now % (24 * 60)
  IN CanonKey(now \div (24 * 60)) \o <<"T">>
       \o PadStart(ToDigits(minute \div 60), 2, "0") \o <<":">>
       \o PadStart(ToDigits(minute % 60), 2, "0")
       \o <<":", "0", "0", ".", "0", "0", "0", "Z">>

\* setAttendance with the record stored under the key of the latest entry
setAttendanceLastKey(s, dateKey, prayers, fasted, now) ==
  LET state    == readState(s)
      existing == Lookup(state.attendance, dateKey)
      nextRecord == [date |-> dateKey,
                     prayers |-> MergePrayers(existing, prayers),
                     fasted |-> MergeFasted(existing, fasted),
                     updatedAt |-> toISOString(now)]
      target == IF state.attendance = << >> THEN dateKey
                ELSE state.attendance[Len(state.attendance)].key
  IN [state EXCEPT !.attendance = Assign(state.attendance, target, nextRecord)]

\* setAttendance(dateKey, prayers, fasted?): the store it leaves
setAttendance(s, dateKey, prayers, fasted, now) ==
  LET state    == readState(s)
      existing == Lookup(state.attendance, dateKey)
      nextRecord == [date |-> dateKey,
                     prayers |-> MergePrayers(existing, prayers),
                     fasted |-> MergeFasted(existing, fasted),
                     updatedAt |-> toISOString(now)]
  IN [state EXCEPT !.attendance = Assign(state.attendance, dateKey, nextRecord)]

(***************************************************************************)
(* commands/mark.ts, commands/backfill.ts, commands/fast.ts.  A prompt's   *)
(* answer is a set: {} when the prompt is cancelled, else {answer}.  The   *)
(* Hijri conversion of the remote API either rejects, or answers without   *)
(* a month, or answers with a month number.                                *)
(***************************************************************************)
Conversions ==
  {[kind |-> "rejected"], [kind |-> "malformed"]}
    \cup {[kind |-> "ok", month |-> m] : m \in {8, 9}}

\* isRamadanDate with the failure of the conversion left uncaught
isRamadanDateUncaught(conversion) ==
  IF conversion.kind = "ok"
  THEN [threw |-> FALSE, value |-> conversion.month = 9]
  ELSE [threw |-> TRUE, value |-> FALSE]

\* isRamadanDate(dateKey): what it returns, and whether it throws
isRamadanDate(conversion) ==
  IF conversion.kind = "ok"
  THEN [threw |-> FALSE, value |-> conversion.month = 9]
  ELSE [threw |-> FALSE, value |-> FALSE]

\* PRAYERS.filter((prayer) => existing?.prayers[prayer] === true)
InitialValues(existing) ==
  {p \in AllPrayers : \E r \in existing : Done(r, p)}

\* the record of a selection with entries for the selected prayers only
RecordOfSelected(selected) == [p \in selected |-> TRUE]

\* Object.fromEntries(PRAYERS.map((prayer) => [prayer, selectedSet.has(prayer)]))
RecordOf(selected) == [p \in AllPrayers |-> p \in selected]

\* existing?.fasted
FastedOf(existing) ==
  IF existing = {} THEN {} ELSE (CHOOSE r \in existing : TRUE).fasted

\* the fasted argument with `existing?.fasted ?? false` taken as the start
FastedToStoreOrFalse(existing, fastingAnswer) ==
  IF fastingAnswer # {} THEN fastingAnswer
  ELSE IF FastedOf(existing) = {} THEN {FALSE} ELSE FastedOf(existing)

\* let fasted = existing?.fasted; ... fasted = Boolean(fastingAnswer):
\* fastingAnswer is {} when the question was not asked
FastedToStore(existing, fastingAnswer) ==
  IF fastingAnswer # {} THEN fastingAnswer ELSE FastedOf(existing)

\* the part of mark and backfill after the date is known: the multiselect,
\* the fasting question on a Ramadan date, and the write
LogPrayers(op, s, e, dateKey, selected, conversion, fastingAnswer) ==
  LET existing      == getAttendance(s, dateKey)
      initialValues == InitialValues(existing)
      seen == [op |-> op, dateKey |-> {dateKey}, before |-> s,
               initialValues |-> {initialValues}, selected |-> selected,
               conversion |-> {}, ramadan |-> {}, answer |-> {},
               outcome |-> "running", call |-> {}]
  IN IF selected = {}
     THEN [store |-> s, cmd |-> [seen EXCEPT !.outcome = "cancelled"]]
     ELSE LET record  == RecordOf(CHOOSE sel \in selected : TRUE)
              ramadan == isRamadanDate(conversion)
              asked   == [seen EXCEPT !.conversion = {conversion},
                                      !.ramadan = {ramadan}]
          IN IF ramadan.threw
             THEN [store |-> s, cmd |-> [asked EXCEPT !.outcome = "threw"]]
             ELSE IF ramadan.value /\ fastingAnswer = {}
             THEN [store |-> s, cmd |-> [asked EXCEPT !.outcome = "cancelled"]]
             ELSE LET answer == IF ramadan.value THEN fastingAnswer ELSE {}
                      fasted == FastedToStore(existing, answer)
                  IN [store |-> setAttendance(s, dateKey, record, fasted, e.now),
                      cmd |-> [asked EXCEPT
                                 !.outcome = "saved", !.answer = answer,
                                 !.call = {[dateKey |-> dateKey,
                                            prayers |-> record,
                                            fasted |-> fasted,
                                            now |-> e.now]}]]

\* the action of the mark command
markAction(s, e, selected, conversion, fastingAnswer) ==
  LET config  == getConfig(s)
      dateKey == formatDateKey(e, config.timezone)
  IN LogPrayers("mark", s, e, dateKey, selected, conversion, fastingAnswer)

\* the action of the fast command
fastAction(s, e, conversion, fastingAnswer) ==
  LET config  == getConfig(s)
      dateKey == formatDateKey(e, config.timezone)
      ramadan == isRamadanDate(conversion)
      seen == [op |-> "fast", dateKey |-> {dateKey}, before |-> s,
               initialValues |-> {}, selected |-> {},
               conversion |-> {conversion}, ramadan |-> {ramadan},
               answer |-> {}, outcome |-> "running", call |-> {}]
  IN IF ramadan.threw
     THEN [store |-> s, cmd |-> [seen EXCEPT !.outcome = "threw"]]
     ELSE IF ~ramadan.value
     THEN [store |-> s, cmd |-> [seen EXCEPT !.outcome = "not Ramadan"]]
     ELSE IF fastingAnswer = {}
     THEN [store |-> s, cmd |-> [seen EXCEPT !.outcome = "cancelled"]]
     ELSE [store |-> setAttendance(s, dateKey, << >>, fastingAnswer, e.now),
           cmd |-> [seen EXCEPT
                      !.outcome = "saved", !.answer = fastingAnswer,
                      !.call = {[dateKey |-> dateKey, prayers |-> << >>,
                                 fasted |-> fastingAnswer, now |-> e.now]}]]

\* /^\d{4}-\d{2}-\d{2}$/.test(value)
IsDateShape(value) ==
  /\ Len(value) = 10
  /\ \A i \in {1, 2, 3, 4, 6, 7, 9, 10} : value[i] \in DigitChars
  /\ value[5] = "-"
  /\ value[8] = "-"

\* the year, month and day numbers of a string of the YYYY-MM-DD shape
DateParts(value) ==
  [year  |-> NumberOf(SubSeq(value, 1, 4)),
   month |-> NumberOf(SubSeq(value, 6, 7)),
   day   |-> NumberOf(SubSeq(value, 9, 10))]

\* Date.UTC(year, monthIndex, day) as a day number: the same carrying over
\* and the same reading of the years 0..99 as the Date constructor
DateUTC(year, monthIndex, day) == NewDate(year, monthIndex, day)

\* backfill's parseDateKey(value): the value, or the error it throws
backfillParseDateKey(value) ==
  IF ~IsDateShape(value)
  THEN [ok |-> FALSE, message |-> "Date must be in YYYY-MM-DD format"]
  ELSE LET p    == DateParts(value)
           date == DateUTC(p.year, p.month - 1, p.day)
       IN IF p.month < 1 \/ p.month > 12
          THEN [ok |-> FALSE, message |-> "Month must be between 01 and 12"]
          ELSE IF \/ GetFullYear(date) # p.year
                  \/ GetMonth(date) # p.month - 1
                  \/ GetDate(date) # p.day
          THEN [ok |-> FALSE, message |-> "Invalid day for the given month"]
          ELSE [ok |-> TRUE, value |-> value]

\* isFutureDate(dateKey) against today's key in UTC
isFutureDateUTC(e, dateKey) ==
  LET today    == e.now \div (24 * 60)
      todayKey == KeyOfDate(today)
  IN StrLess(todayKey, dateKey)

\* isFutureDate(dateKey): against today's key in the process's timezone
isFutureDate(e, dateKey) ==
  LET today    == (e.now + ZoneOffsets[e.localZone]) \div (24 * 60)
      todayKey == KeyOfDate(today)
  IN StrLess(todayKey, dateKey)

\* the action of the backfill command: date is the --date option ({} when
\* absent), prompted the date that promptForDate returns ({} for null)
backfillAction(s, e, date, prompted, selected, conversion, fastingAnswer) ==
  LET thrown(message) ==
        [store |-> s,
         cmd |-> [op |-> "backfill", dateKey |-> {}, before |-> s,
                  initialValues |-> {}, selected |-> {}, conversion |-> {},
                  ramadan |-> {}, answer |-> {}, outcome |-> message,
                  call |-> {}]]
      cancelled == thrown("cancelled")
      log(dateKey) == LogPrayers("backfill", s, e, dateKey, selected,
                                 conversion, fastingAnswer)
  IN IF date # {}
     THEN LET parsed == backfillParseDateKey(CHOOSE v \in date : TRUE)
          IN IF ~parsed.ok THEN thrown("threw")
             ELSE IF isFutureDate(e, parsed.value)
             THEN (IF prompted = {} THEN cancelled
                   ELSE log(CHOOSE k \in prompted : TRUE))
             ELSE log(parsed.value)
     ELSE IF prompted = {} THEN cancelled
     ELSE log(CHOOSE k \in prompted : TRUE)

\* the rows of the Ramadan recap: one per Ramadan date, with the stored
\* prayers, fasted flag and updatedAt of that date
ramadanRows(s, ramadanDates) ==
  LET attendance == listAttendance(s)
      Get(dateKey) == {attendance[i] : i \in {j \in 1..Len(attendance) :
                                                attendance[j].date = dateKey}}
  IN [i \in 1..Len(ramadanDates) |->
        LET existing == Get(ramadanDates[i])
        IN IF existing = {}
           THEN [date |-> ramadanDates[i], prayers |-> << >>, fasted |-> {},
                 updatedAt |-> << >>]
           ELSE LET r == CHOOSE x \in existing : TRUE
                IN [date |-> ramadanDates[i], prayers |-> r.prayers,
                    fasted |-> r.fasted, updatedAt |-> r.updatedAt]]

\* buildRamadanDatesFromStart(start, days) of commands/recap.ts
buildRamadanDatesFromStart(start, days) ==
  [idx \in 1..days |-> addDays(start, idx - 1)]

(***************************************************************************)
(* Inputs of the logging commands.                                         *)
(***************************************************************************)
\* the config that the first-run setup stored: a location, and with or
\* without a timezone override
StoreConfigs ==
  [location : {{"Jakarta, Indonesia"}}, method : {{}}, school : {{}},
   timezone : {{}, {"Jakarta"}}]

\* the instant of the first command: 2026-02-28T10:00Z
FirstInstant == NewDate(2026, 1, 28) * (24 * 60) + 10 * 60

\* minutes that pass from one command to the next: fourteen hours
ClockStep == 14 * 60

\* what the user ticks in the multiselect
Selections == {{}, AllPrayers \ {"Maghrib"}, AllPrayers}

\* answers of the multiselect: {} when it is cancelled
SelectAnswers == {{}} \cup {{sel} : sel \in Selections}

\* answers of the fasting question: {} when it is cancelled
FastingAnswers == {{}, {TRUE}, {FALSE}}

\* the conversions that can answer a command that reached the request (one
\* stands for the request that a cancelled multiselect never makes)
ConversionsAfter(selected) ==
  IF selected = {} THEN {[kind |-> "rejected"]} ELSE Conversions

\* the answers that can follow a conversion: the question is asked only on
\* a date that is taken as a Ramadan date
AnswersAfter(conversion) ==
  IF isRamadanDate(conversion).value THEN FastingAnswers ELSE {{}}

\* values of backfill's --date option: absent, 2026-02-27, a date of next
\* year, a day that February does not have, an unpadded month
BackfillDates ==
  {{}, {CanonKey(NewDate(2026, 1, 27))}, {CanonKey(NewDate(2027, 1, 28))},
   {<<"2", "0", "2", "6", "-", "0", "2", "-", "3", "0">>},
   {<<"2", "0", "2", "6", "-", "2", "-", "2", "8">>}}

\* what promptForDate returns when the command reaches it: null, or a date
\* that its validation accepts and that is not in the future
PromptedDates(e, date) ==
  IF /\ date # {}
     /\ \/ ~backfillParseDateKey(CHOOSE v \in date : TRUE).ok
        \/ ~isFutureDate(e, CHOOSE v \in date : TRUE)
  THEN {{}}
  ELSE {{}} \cup {{CanonKey(n)} :
                    n \in {d \in {NewDate(2026, 1, 27), NewDate(2026, 1, 28)} :
                             ~isFutureDate(e, CanonKey(d))}}

\* --ramadan-start and --ramadan-days values of the recap: two or three days
\* from 2026-02-27
RamadanStarts == {CanonKey(NewDate(2026, 1, 27))}

RamadanLengths == {2, 3}

InitStore ==
  /\ \E config \in StoreConfigs :
       store = [location |-> config.location, method |-> config.method,
                school |-> config.school, timezone |-> config.timezone,
                attendance |-> << >>]
  /\ clock = [now |-> FirstInstant, localZone |-> "New_York", count |-> 0]
  /\ cmd = [op |-> "none"]
  /\ RecapIdle
  /\ ScheduleIdle
  /\ CutoffIdle
  /\ RunIdle
  /\ CalcIdle
  /\ MenuIdle

\* the clock after a command
Tick == [clock EXCEPT !.now = @ + ClockStep, !.count = @ + 1]

\* another logging command can run
CanLog == clock.count < MaxCommands /\ cmd.op # "recap"

Mark ==
  /\ CanLog
  /\ \E selected \in SelectAnswers :
       \E conversion \in ConversionsAfter(selected) :
         \E fastingAnswer \in AnswersAfter(conversion) :
           LET done == markAction(store, clock, selected, conversion,
                                  fastingAnswer)
           IN /\ store' = done.store
              /\ cmd' = done.cmd
              /\ clock' = Tick
              /\ UNCHANGED <<recapVars, scheduleVars, cutoffVars, runVars, calcVars, menuVars>>

Backfill ==
  /\ CanLog
  /\ \E date \in BackfillDates :
       \E prompted \in PromptedDates(clock, date),
          selected \in SelectAnswers :
         \E conversion \in ConversionsAfter(selected) :
           \E fastingAnswer \in AnswersAfter(conversion) :
             LET done == backfillAction(store, clock, date, prompted,
                                        selected, conversion, fastingAnswer)
             IN /\ store' = done.store
                /\ cmd' = done.cmd
                /\ clock' = Tick
                /\ UNCHANGED <<recapVars, scheduleVars, cutoffVars, runVars, calcVars, menuVars>>

Fast ==
  /\ CanLog
  /\ \E conversion \in Conversions :
       \E fastingAnswer \in AnswersAfter(conversion) :
         LET done == fastAction(store, clock, conversion, fastingAnswer)
         IN /\ store' = done.store
            /\ cmd' = done.cmd
            /\ clock' = Tick
            /\ UNCHANGED <<recapVars, scheduleVars, cutoffVars, runVars, calcVars, menuVars>>

\* the recap command up to the rows of its Ramadan table; the run of the
\* model ends with it
RecapRamadan ==
  \E start \in RamadanStarts, days \in RamadanLengths :
    /\ cmd.op # "recap"
    /\ cmd' = [op |-> "recap", before |-> store, outcome |-> "shown",
               ramadanDates |-> buildRamadanDatesFromStart(start, days),
               rows |-> ramadanRows(store,
                                    buildRamadanDatesFromStart(start, days))]
    /\ UNCHANGED <<store, clock, recapVars, scheduleVars, cutoffVars, runVars, calcVars, menuVars>>

NextStore == Mark \/ Backfill \/ Fast \/ RecapRamadan

SpecStore == InitStore /\ [][NextStore]_vars

(***************************************************************************)
(* The validation of the option strings.  A parser returns                 *)
(* [ok |-> TRUE, value |-> v], or [ok |-> FALSE, message |-> m] for the    *)
(* Error it throws.                                                        *)
(***************************************************************************)
\* every character of s is a decimal digit
AllDigits(s) == \A i \in 1..Len(s) : s[i] \in DigitChars

\* Number(value) for the strings the model passes: decimal digits with an
\* optional minus sign give an integer, the empty string gives 0, and any
\* other string here (letters, a decimal fraction) gives no integer
NumberJS(value) ==
  IF value = << >> THEN [integer |-> TRUE, n |-> 0]
  ELSE IF AllDigits(value) THEN [integer |-> TRUE, n |-> NumberOf(value)]
  ELSE IF Head(value) = "-" /\ Len(value) > 1 /\ AllDigits(Tail(value))
  THEN [integer |-> TRUE, n |-> 0 - NumberOf(Tail(value))]
  ELSE [integer |-> FALSE]

\* parseDateKey(value) of utils/ramadan-utils.ts and commands/history.ts
parseDateKey(value) ==
  IF ~IsDateShape(value)
  THEN [ok |-> FALSE, message |-> "Date must be in YYYY-MM-DD format"]
  ELSE [ok |-> TRUE, value |-> value]

\* parseMonthKey(value): /^\d{4}-\d{2}$/
parseMonthKey(value) ==
  IF /\ Len(value) = 7
     /\ \A i \in {1, 2, 3, 4, 6, 7} : value[i] \in DigitChars
     /\ value[5] = "-"
  THEN [ok |-> TRUE, value |-> value]
  ELSE [ok |-> FALSE, message |-> "Month must be in YYYY-MM format"]

\* parseDays(value)
parseDays(value) ==
  LET days == NumberJS(value)
  IN IF ~days.integer \/ days.n < 1 \/ days.n > 30
     THEN [ok |-> FALSE,
           message |-> "Ramadan days must be an integer between 1 and 30"]
     ELSE [ok |-> TRUE, value |-> days.n]

\* parseHijriYear(value)
parseHijriYear(value) ==
  LET year == NumberJS(value)
  IN IF ~year.integer \/ year.n < 1
     THEN [ok |-> FALSE, message |-> "Hijri year must be a positive integer"]
     ELSE [ok |-> TRUE, value |-> year.n]

\* parseRange(value) of commands/recap.ts: value is {} when --range is absent
parseRange(value) ==
  IF value = {} THEN 30
  ELSE LET v == CHOOSE x \in value : TRUE
       IN IF v = << >> THEN 30
          ELSE IF /\ Len(v) >= 2
                  /\ v[Len(v)] = "d"
                  /\ AllDigits(SubSeq(v, 1, Len(v) - 1))
          THEN NumberOf(SubSeq(v, 1, Len(v) - 1))
          ELSE 30

\* parseDateInput(value) of commands/schedule.ts: the Date it returns
parseDateInput(value) ==
  IF ~IsDateShape(value)
  THEN [ok |-> FALSE, message |-> "Date must be in YYYY-MM-DD format"]
  ELSE LET p == DateParts(value)
       IN [ok |-> TRUE, value |-> NewDate(p.year, p.month - 1, p.day)]

\* an option that is absent or the empty string is not parsed
Given(option) == option # {} /\ option # {<< >>}

\* `options.x ? parse(options.x) : fallback` as a parse result
ParseIfGiven(option, parse(_), fallback) ==
  IF Given(option) THEN parse(CHOOSE v \in option : TRUE)
  ELSE [ok |-> TRUE, value |-> fallback]

\* the first failed parse of a sequence of parse results, {} if there is none
FirstError(results) ==
  LET failed == {i \in 1..Len(results) : ~results[i].ok}
  IN IF failed = {} THEN {}
     ELSE {results[CHOOSE i \in failed : \A j \in failed : i <= j].message}

(***************************************************************************)
(* A run of one command with its options (commands/history.ts,             *)
(* commands/recap.ts, commands/schedule.ts, commands/backfill.ts).         *)
(*   run   the command, its options, the store it reads, the place the     *)
(*         handler has reached and the requests it is waiting for          *)
(*   term  what the user sees: the events in their order ("fetch" for a    *)
(*         request sent, "write" for a store write, "error" for an error   *)
(*         raised, "table" for rows printed), the rows printed, the error  *)
(*         message printed, the exit code, and who handled the error       *)
(***************************************************************************)
\* the largest --ramadan-days of a history run with --ramadan-start
MaxBatch == 3

\* renderLine(pc.red(message)); process.exitCode = 1 in the catch block of
\* the action handler
Caught(t, message) ==
  [t EXCEPT !.log = Append(@, "error"), !.error = {message},
            !.exitCode = 1, !.handled = "handler"]

\* an unhandled rejection under a runtime that only warns about it: the
\* warning is printed and the exit code stays 0
UncaughtWarned(t, message) ==
  [t EXCEPT !.log = Append(@, "error"), !.error = {message},
            !.handled = "runtime"]

\* an error thrown out of an async action handler: cli.ts calls
\* program.parse(), which drops the promise of the handler, so the rejection
\* is unhandled; Node (the build targets node20) prints the error with its
\* message and ends the process with exit code 1
Uncaught(t, message) ==
  [t EXCEPT !.log = Append(@, "error"), !.error = {message},
            !.exitCode = 1, !.handled = "runtime"]

\* n requests sent
Requested(t, n) == [t EXCEPT !.log = @ \o [i \in 1..n |-> "fetch"]]

\* rows printed
Printed(t, printed) ==
  [t EXCEPT !.log = Append(@, "table"), !.rows = printed]

\* short month names of Intl.DateTimeFormat('en-GB', {month: 'short'})
MonthShort ==
  << <<"J", "a", "n">>, <<"F", "e", "b">>, <<"M", "a", "r">>,
     <<"A", "p", "r">>, <<"M", "a", "y">>, <<"J", "u", "n">>,
     <<"J", "u", "l">>, <<"A", "u", "g">>, <<"S", "e", "p">>,
     <<"O", "c", "t">>, <<"N", "o", "v">>, <<"D", "e", "c">> >>

\* formatGregorianLabel(dateKey): "27 Feb 2026"
formatGregorianLabel(dateKey) ==
  LET date == DateOfKey(dateKey)
  IN PadStart(ToDigits(GetDate(date)), 2, "0") \o <<" ">>
       \o MonthShort[GetMonth(date) + 1] \o <<" ">>
       \o ToDigits(GetFullYear(date))

\* formatHijriLabel(hijri)
formatHijriLabel(hijri) ==
  hijri.day \o <<" ">> \o hijri.month.en \o <<" ">> \o hijri.year

\* 1 Ramadan 1447 in the service's calendar: 2026-02-18
FirstOfRamadan == NewDate(2026, 1, 18)

\* days of Ramadan 1447 in the service's calendar
CalendarDays == 29

\* the Hijri date the service returns for a Gregorian date key (Ramadan and
\* Shawwal 1447)
HijriOf(dateKey) ==
  LET n == DateOfKey(dateKey) - FirstOfRamadan
  IN IF n < CalendarDays
     THEN [day |-> PadStart(ToDigits(n + 1), 2, "0"),
           month |-> [number |-> 9, en |-> <<"R", "a", "m", "a", "d", "a", "n">>],
           year |-> <<"1", "4", "4", "7">>]
     ELSE [day |-> PadStart(ToDigits(n + 1 - CalendarDays), 2, "0"),
           month |-> [number |-> 10, en |-> <<"S", "h", "a", "w", "w", "a", "l">>],
           year |-> <<"1", "4", "4", "7">>]

\* the gregorian.date of a calendar item: DD-MM-YYYY
GregorianDate(n) ==
  PadStart(ToDigits(GetDate(n)), 2, "0") \o <<"-">>
    \o PadStart(ToDigits(GetMonth(n) + 1), 2, "0") \o <<"-">>
    \o PadStart(ToDigits(GetFullYear(n)), 4, "0")

\* the items the service returns for Hijri month 9 of 1447; a malformed
\* reply carries its dates as YYYY-MM-DD
CalendarItems(reply) ==
  [i \in 1..CalendarDays |->
     LET n == FirstOfRamadan + i - 1
     IN [date |-> [gregorian |-> [date |-> IF reply = "malformed"
                                           THEN CanonKey(n)
                                           ELSE GregorianDate(n)],
                   hijri |-> HijriOf(CanonKey(n))]]]

\* toDateKeyFromGregorian(dateValue): /^(\d{2})-(\d{2})-(\d{4})$/
toDateKeyFromGregorian(dateValue) ==
  IF /\ Len(dateValue) = 10
     /\ \A i \in {1, 2, 4, 5, 7, 8, 9, 10} : dateValue[i] \in DigitChars
     /\ dateValue[3] = "-" /\ dateValue[6] = "-"
  THEN [ok |-> TRUE,
        value |-> SubSeq(dateValue, 7, 10) \o <<"-">>
                    \o SubSeq(dateValue, 4, 5) \o <<"-">>
                    \o SubSeq(dateValue, 1, 2)]
  ELSE [ok |-> FALSE, message |-> "Unexpected Gregorian date format"]

\* filterByRange(items, from, to): from and to are {} when absent
filterByRange(items, from, to) ==
  LET Keep(item) ==
        /\ \A f \in from : ~StrLess(item.date, f)
        /\ \A t \in to : ~StrLess(t, item.date)
  IN SelectSeq(items, Keep)

\* rows.filter((row) => row.date.startsWith(`${month}-`))
filterByMonth(items, month) ==
  LET Keep(row) ==
        \A m \in month :
          Len(row.date) > Len(m) /\ SubSeq(row.date, 1, Len(m) + 1) = m \o <<"-">>
  IN SelectSeq(items, Keep)

\* prayerMap.get(dateKey) ?? {} over getPrayerMap(attendance)
PrayersOn(attendance, dateKey) ==
  LET at == {i \in 1..Len(attendance) : attendance[i].date = dateKey}
  IN IF at = {} THEN << >>
     ELSE attendance[CHOOSE i \in at : \A j \in at : j <= i].prayers

\* Array.from({ length: days }, (_, idx) => addDays(start, idx))
BatchDates(start, days) == [idx \in 1..days |-> addDays(start, idx - 1)]

\* a gather that appends each result when its call completes
PromiseAllInCompletionOrder(results, order) ==
  [i \in 1..Len(order) |-> results[order[i]]]

\* Promise.all over the calls: the fulfilment values in the order of the
\* calls, whatever the order in which they completed
PromiseAll(results, order) == [i \in 1..Len(order) |-> results[i]]

\* conversions.map(...) of buildRamadanDatesFromStart in commands/history.ts
RamadanDatesOf(conversions) ==
  [i \in 1..Len(conversions) |->
     [dateKey |-> conversions[i].dateKey,
      gregorianLabel |-> formatGregorianLabel(conversions[i].dateKey),
      hijriLabel |-> formatHijriLabel(conversions[i].hijri)]]

\* buildRamadanDatesFromCalendar(items) of commands/history.ts, or the
\* error of the first item whose date is not DD-MM-YYYY
buildRamadanDatesFromCalendar(items) ==
  LET keys == [i \in 1..Len(items) |->
                 toDateKeyFromGregorian(items[i].date.gregorian.date)]
      error == FirstError(keys)
  IN IF error # {}
     THEN [ok |-> FALSE, message |-> CHOOSE m \in error : TRUE]
     ELSE [ok |-> TRUE,
           value |-> [i \in 1..Len(items) |->
                        [dateKey |-> keys[i].value,
                         gregorianLabel |-> formatGregorianLabel(keys[i].value),
                         hijriLabel |-> formatHijriLabel(items[i].date.hijri)]]]

\* rowsForTable of the Ramadan table of history
rowsForTable(attendance, ramadanDates) ==
  [i \in 1..Len(ramadanDates) |->
     [date |-> ramadanDates[i],
      prayers |-> PrayersOn(attendance, ramadanDates[i].dateKey)]]

\* formattedRows of the plain table of history
formattedRows(items) ==
  [i \in 1..Len(items) |->
     [date |-> items[i].date, prayers |-> items[i].prayers,
      displayDate |-> formatGregorianLabel(items[i].date)]]

\* the value of an option that is given
Opt(option) == CHOOSE v \in option : TRUE

\* the history handler up to its first await, or to its end
historyStart(r, t) ==
  LET o            == r.options
      from         == ParseIfGiven(o.from, parseDateKey, << >>)
      to           == ParseIfGiven(o.to, parseDateKey, << >>)
      month        == ParseIfGiven(o.month, parseMonthKey, << >>)
      ramadanStart == ParseIfGiven(o.ramadanStart, parseDateKey, << >>)
      ramadanDays  == ParseIfGiven(o.ramadanDays, parseDays, 30)
      ramadanYear  == ParseIfGiven(o.ramadanYear, parseHijriYear, 1447)
      error        == FirstError(<<from, to, month, ramadanStart, ramadanDays,
                                   ramadanYear>>)
      useRamadan   == o.ramadan \/ Given(o.ramadanStart) \/ Given(o.ramadanDays)
      attendance   == listAttendance(r.store)
      accepted     == {v \in o.from \cup o.to \cup o.ramadanStart : v # << >>}
      filtered     == filterByMonth(
                        filterByRange(attendance,
                                      IF Given(o.from) THEN {from.value} ELSE {},
                                      IF Given(o.to) THEN {to.value} ELSE {}),
                        IF Given(o.month) THEN {month.value} ELSE {})
  IN IF error # {}
     THEN [run |-> [r EXCEPT !.pc = "done"],
           term |-> Caught(t, CHOOSE m \in error : TRUE)]
     ELSE IF useRamadan /\ getConfig(r.store).location = {}
     THEN [run |-> [r EXCEPT !.pc = "done"],
           term |-> Caught(t, "Location is required to resolve Ramadan dates. Run schedule first.")]
     ELSE IF useRamadan /\ Given(o.ramadanStart)
     THEN [run |-> [r EXCEPT !.pc = "batch", !.accepted = accepted,
                             !.dates = BatchDates(ramadanStart.value,
                                                  ramadanDays.value),
                             !.pending = 1..ramadanDays.value],
           term |-> Requested(t, ramadanDays.value)]
     ELSE IF useRamadan
     THEN [run |-> [r EXCEPT !.pc = "calendar", !.accepted = accepted],
           term |-> Requested(t, 1)]
     ELSE [run |-> [r EXCEPT !.pc = "done", !.accepted = accepted],
           term |-> IF filtered = << >> THEN t
                    ELSE Printed(t, formattedRows(filtered))]

\* the fulfilment value of the call for dates[i]
converted(r, i) == [dateKey |-> r.dates[i], hijri |-> HijriOf(r.dates[i])]

\* the continuation of history after Promise.all has resolved
historyJoin(r, t) ==
  LET conversions  == PromiseAll(r.results, r.order)
      ramadanDates == RamadanDatesOf(conversions)
  IN [run |-> [r EXCEPT !.pc = "done"],
      term |-> Printed(t, rowsForTable(listAttendance(r.store), ramadanDates))]

\* the continuation of history after the calendar request has returned
historyCalendar(r, t, reply) ==
  LET ramadanDates == buildRamadanDatesFromCalendar(CalendarItems(reply))
  IN [run |-> [r EXCEPT !.pc = "done", !.reply = {reply}],
      term |-> IF reply = "failed" THEN Caught(t, "Failed to fetch Hijri calendar")
               ELSE IF ~ramadanDates.ok THEN Caught(t, ramadanDates.message)
               ELSE Printed(t, rowsForTable(listAttendance(r.store),
                                            ramadanDates.value))]

\* useRamadan of the recap handler
recapUseRamadan(o) ==
  o.ramadan \/ Given(o.ramadanStart) \/ Given(o.ramadanDays) \/ ~Given(o.range)

\* the recap handler up to its first await, or to its end
recapStart(r, t) ==
  LET o         == r.options
      rangeDays == parseRange(o.range)
      ranged    == filterByDays(listAttendance(r.store), rangeDays)
  IN IF recapUseRamadan(o)
     THEN IF getConfig(r.store).location = {}
          THEN [run |-> [r EXCEPT !.pc = "done"],
                term |-> [t EXCEPT
                            !.log = Append(@, "error"),
                            !.error = {"Location is required for Ramadan recap. Run schedule first."},
                            !.exitCode = 1, !.handled = "handler"]]
          ELSE [run |-> [r EXCEPT !.pc = "cutoff"], term |-> Requested(t, 1)]
     ELSE IF ranged = << >>
     THEN [run |-> [r EXCEPT !.pc = "done"], term |-> t]
     ELSE [run |-> [r EXCEPT !.pc = "cutoff"],
           term |-> IF getConfig(r.store).location = {} THEN t
                    ELSE Requested(t, 1)]

\* the recap handler after resolveWinRateCutoffDateKey has returned, up to
\* its next await or to its end
recapCutoff(r, t) ==
  LET o            == r.options
      ramadanYear  == ParseIfGiven(o.ramadanYear, parseHijriYear, 1447)
      ramadanDays  == ParseIfGiven(o.ramadanDays, parseDays, 30)
      ramadanStart == ParseIfGiven(o.ramadanStart, parseDateKey, << >>)
      error        == FirstError(<<ramadanYear, ramadanDays, ramadanStart>>)
      dates        == buildRamadanDatesFromStart(ramadanStart.value,
                                                 ramadanDays.value)
  IN IF ~recapUseRamadan(o)
     THEN [run |-> [r EXCEPT !.pc = "done"],
           term |-> Printed(t, filterByDays(listAttendance(r.store),
                                            parseRange(o.range)))]
     ELSE IF error # {}
     THEN [run |-> [r EXCEPT !.pc = "done"],
           term |-> Uncaught(t, CHOOSE m \in error : TRUE)]
     ELSE IF Given(o.ramadanStart)
     THEN [run |-> [r EXCEPT !.pc = "done", !.dates = dates,
                             !.accepted = {ramadanStart.value}],
           term |-> Printed(t, ramadanRows(r.store, dates))]
     ELSE [run |-> [r EXCEPT !.pc = "calendar"], term |-> Requested(t, 1)]

\* buildRamadanDatesFromCalendar(items) of commands/recap.ts: the date keys,
\* or the error of the first item whose date is not DD-MM-YYYY
recapDatesFromCalendar(items) ==
  LET keys == [i \in 1..Len(items) |->
                 toDateKeyFromGregorian(items[i].date.gregorian.date)]
      error == FirstError(keys)
  IN IF error # {}
     THEN [ok |-> FALSE, message |-> CHOOSE m \in error : TRUE]
     ELSE [ok |-> TRUE, value |-> [i \in 1..Len(items) |-> keys[i].value]]

\* the continuation of recap after the calendar request has returned
recapCalendar(r, t, reply) ==
  LET ramadanDates == recapDatesFromCalendar(CalendarItems(reply))
  IN [run |-> [r EXCEPT !.pc = "done", !.reply = {reply}],
      term |-> IF reply = "failed" THEN Uncaught(t, "Failed to fetch Hijri calendar")
               ELSE IF ~ramadanDates.ok THEN Uncaught(t, ramadanDates.message)
               ELSE Printed(t, ramadanRows(r.store, ramadanDates.value))]

\* parseMonthInput(value) of commands/schedule.ts
parseMonthInput(value) ==
  LET shaped == parseMonthKey(value)
      month  == NumberOf(SubSeq(value, 6, 7))
  IN IF ~shaped.ok THEN shaped
     ELSE IF month < 1 \/ month > 12
     THEN [ok |-> FALSE, message |-> "Month must be between 01 and 12"]
     ELSE [ok |-> TRUE,
           value |-> [year |-> NumberOf(SubSeq(value, 1, 4)), month |-> month]]

\* the schedule handler with a stored location: reply is the answer of the
\* service to the request for the schedule.  A date that is given reaches
\* the request as the Date that parseDateInput built (run.fetched).
scheduleAction(r, t, reply) ==
  LET o        == r.options
      month    == ParseIfGiven(o.month, parseMonthInput, << >>)
      date     == ParseIfGiven(o.date, parseDateInput, 0)
      answered(sent) ==
        IF reply = "failed" THEN Caught(Requested(t, 1), "Failed to fetch schedule")
        ELSE [Requested(t, 1) EXCEPT !.log = @ \o <<"table", "write">>,
                                     !.rows = <<sent>>]
  IN IF Given(o.month)
     THEN IF ~month.ok
          THEN [run |-> [r EXCEPT !.pc = "done"],
                term |-> Caught(t, month.message)]
          ELSE [run |-> [r EXCEPT !.pc = "done"],
                term |-> answered(month.value)]
     ELSE IF ~date.ok
     THEN [run |-> [r EXCEPT !.pc = "done"], term |-> Caught(t, date.message)]
     ELSE [run |-> [r EXCEPT !.pc = "done",
                             !.accepted = IF Given(o.date) THEN o.date ELSE {},
                             !.fetched = IF Given(o.date) THEN {date.value}
                                         ELSE {}],
           term |-> answered(IF Given(o.date) THEN {date.value} ELSE {})]

\* the backfill handler as a run: a --date that parseDateKey rejects is
\* thrown out of the handler, which has no try block
backfillRun(r, t, prompted, selected, conversion, fastingAnswer) ==
  LET o      == r.options
      parsed == ParseIfGiven(o.date, backfillParseDateKey, << >>)
      done   == backfillAction(r.store, r.clock, o.date, prompted, selected,
                               conversion, fastingAnswer)
      asked  == IF done.cmd.ramadan = {} THEN t ELSE Requested(t, 1)
  IN IF ~parsed.ok
     THEN [run |-> [r EXCEPT !.pc = "done"],
           term |-> Uncaught(t, parsed.message)]
     ELSE [run |-> [r EXCEPT !.pc = "done", !.store = done.store,
                             !.accepted = done.cmd.dateKey],
           term |-> IF done.cmd.outcome = "saved"
                    THEN [asked EXCEPT !.log = Append(@, "write")]
                    ELSE asked]

(***************************************************************************)
(* Inputs and steps of a run.                                              *)
(***************************************************************************)
\* the date strings of the options: 2026-02-27, a day that February does
\* not have, and a date written day first
GoodDate == CanonKey(NewDate(2026, 1, 27))

NoSuchDay == <<"2", "0", "2", "6", "-", "0", "2", "-", "3", "0">>

DayFirst == <<"2", "7", "-", "0", "2", "-", "2", "0", "2", "6">>

\* no option given
NoOptions ==
  [from |-> {}, to |-> {}, month |-> {}, ramadan |-> FALSE,
   ramadanStart |-> {}, ramadanDays |-> {}, ramadanYear |-> {},
   range |-> {}, date |-> {}]

\* values of --ramadan-days: absent, every length of a batch, one above
\* the range, and a word
DayCounts ==
  {{}, {<<"3", "1">>}, {<<"a", "b", "c">>}}
    \cup {{ToDigits(n)} : n \in 1..MaxBatch}

\* values of --ramadan-year
HijriYears == {{}, {<<"1", "4", "4", "7">>}, {<<"a", "b", "c">>}}

\* the options of the history runs; a run that gives --ramadan-start gives
\* --ramadan-days too (the batch of the default length has 30 calls)
HistoryOptions ==
  {o \in [from : {{}, {GoodDate}, {DayFirst}},
          to : {{}, {CanonKey(NewDate(2026, 1, 28))}},
          month : {{}, {<<"2", "0", "2", "6", "-", "0", "2">>},
                   {<<"2", "0", "2", "6", "-", "2">>}},
          ramadan : BOOLEAN,
          ramadanStart : {{}, {GoodDate}, {NoSuchDay}, {DayFirst}},
          ramadanDays : DayCounts,
          ramadanYear : HijriYears,
          range : {{}}, date : {{}}] :
     o.ramadanStart # {} => o.ramadanDays # {}}

\* the options of the recap runs
RecapOptions ==
  [from : {{}}, to : {{}}, month : {{}},
   ramadan : BOOLEAN,
   ramadanStart : {{}, {GoodDate}, {NoSuchDay}, {DayFirst}},
   ramadanDays : DayCounts,
   ramadanYear : HijriYears,
   range : {{}, {<<"7", "d">>}, {<<"7", "x">>}}, date : {{}}]

\* the options of the schedule runs
ScheduleOptions ==
  [from : {{}}, to : {{}},
   month : {{}, {<<"2", "0", "2", "6", "-", "0", "2">>},
            {<<"2", "0", "2", "6", "-", "1", "3">>},
            {<<"2", "0", "2", "6", "-", "2">>}},
   ramadan : {FALSE}, ramadanStart : {{}}, ramadanDays : {{}},
   ramadanYear : {{}}, range : {{}},
   date : {{}, {GoodDate}, {NoSuchDay}, {DayFirst}}]

\* the options of the backfill runs
BackfillOptions == {[NoOptions EXCEPT !.date = date] : date \in BackfillDates}

\* the commands with their options
RunInputs ==
  {[command |-> "history", options |-> o] : o \in HistoryOptions}
    \cup {[command |-> "recap", options |-> o] : o \in RecapOptions}
    \cup {[command |-> "schedule", options |-> o] : o \in ScheduleOptions}
    \cup {[command |-> "backfill", options |-> o] : o \in BackfillOptions}

\* a store without a location and without records
BareStore ==
  [location |-> {}, method |-> {}, school |-> {}, timezone |-> {},
   attendance |-> << >>]

\* a store with a location and the records of 2026-02-28 and 2026-02-27,
\* written in this order
MarkedStore ==
  setAttendance(
    setAttendance([BareStore EXCEPT !.location = {"Jakarta, Indonesia"}],
                  CanonKey(NewDate(2026, 1, 28)), RecordOf(AllPrayers),
                  {TRUE}, FirstInstant),
    GoodDate, RecordOf({"Fajr"}), {}, FirstInstant + ClockStep)

RunStores == {BareStore, MarkedStore}

\* answers of the service to a request for a calendar or a schedule
Replies == {"ok", "malformed", "failed"}

InitRun ==
  /\ \E input \in RunInputs, s \in RunStores :
       run = [command |-> input.command, options |-> input.options,
              store |-> s,
              clock |-> [now |-> FirstInstant + 2 * ClockStep,
                         localZone |-> "New_York"],
              pc |-> "start", dates |-> << >>, pending |-> {},
              results |-> << >>, order |-> << >>, accepted |-> {},
              fetched |-> {}, reply |-> {}]
  /\ term = [log |-> << >>, rows |-> << >>, error |-> {}, exitCode |-> 0,
             handled |-> "none"]
  /\ RecapIdle
  /\ ScheduleIdle
  /\ CutoffIdle
  /\ StoreIdle
  /\ CalcIdle
  /\ MenuIdle

\* the variables that a run leaves alone
notRunVars ==
  <<recapVars, scheduleVars, cutoffVars, storeVars, calcVars, menuVars>>

HistoryStart ==
  /\ run.command = "history"
  /\ run.pc = "start"
  /\ run' = historyStart(run, term).run
  /\ term' = historyStart(run, term).term
  /\ UNCHANGED notRunVars

\* the conversion call for dates[i] is fulfilled
HijriReturns ==
  \E i \in run.pending :
    /\ run.command = "history"
    /\ run' = [run EXCEPT !.pending = @ \ {i},
                          !.results = @ @@ (i :> converted(run, i)),
                          !.order = Append(@, i)]
    /\ UNCHANGED <<term, notRunVars>>

\* the conversion call for dates[i] is rejected: the first rejection
\* rejects Promise.all, and the catch block of the handler runs; the other
\* calls stay in flight
HijriFails ==
  \E i \in run.pending :
    /\ run.command = "history"
    /\ run' = [run EXCEPT !.pending = @ \ {i}, !.order = Append(@, i),
                          !.pc = "done"]
    /\ term' = IF run.pc = "batch"
               THEN Caught(term, "Failed to convert date to Hijri")
               ELSE term
    /\ UNCHANGED notRunVars

\* every call is fulfilled: Promise.all resolves
HistoryJoin ==
  /\ run.command = "history"
  /\ run.pc = "batch"
  /\ run.pending = {}
  /\ run' = historyJoin(run, term).run
  /\ term' = historyJoin(run, term).term
  /\ UNCHANGED notRunVars

HistoryCalendar ==
  \E reply \in Replies :
    /\ run.command = "history"
    /\ run.pc = "calendar"
    /\ run' = historyCalendar(run, term, reply).run
    /\ term' = historyCalendar(run, term, reply).term
    /\ UNCHANGED notRunVars

RecapStart ==
  /\ run.command = "recap"
  /\ run.pc = "start"
  /\ run' = recapStart(run, term).run
  /\ term' = recapStart(run, term).term
  /\ UNCHANGED notRunVars

RecapCutoff ==
  /\ run.command = "recap"
  /\ run.pc = "cutoff"
  /\ run' = recapCutoff(run, term).run
  /\ term' = recapCutoff(run, term).term
  /\ UNCHANGED notRunVars

RecapCalendar ==
  \E reply \in Replies :
    /\ run.command = "recap"
    /\ run.pc = "calendar"
    /\ run' = recapCalendar(run, term, reply).run
    /\ term' = recapCalendar(run, term, reply).term
    /\ UNCHANGED notRunVars

ScheduleRun ==
  \E reply \in Replies \ {"malformed"} :
    /\ run.command = "schedule"
    /\ run.pc = "start"
    /\ run' = scheduleAction(run, term, reply).run
    /\ term' = scheduleAction(run, term, reply).term
    /\ UNCHANGED notRunVars

BackfillRun ==
  \E prompted \in PromptedDates(run.clock, run.options.date),
     selected \in {{}, {AllPrayers}} :
    \E conversion \in ConversionsAfter(selected) :
      \E fastingAnswer \in AnswersAfter(conversion) :
        LET done == backfillRun(run, term, prompted, selected, conversion,
                                fastingAnswer)
        IN /\ run.command = "backfill"
           /\ run.pc = "start"
           /\ run' = done.run
           /\ term' = done.term
           /\ UNCHANGED notRunVars

NextRun ==
  \/ HistoryStart
  \/ HijriReturns
  \/ HijriFails
  \/ HistoryJoin
  \/ HistoryCalendar
  \/ RecapStart
  \/ RecapCutoff
  \/ RecapCalendar
  \/ ScheduleRun
  \/ BackfillRun

SpecRun == InitRun /\ [][NextRun]_vars

(***************************************************************************)
(* The date and time functions applied to arguments: one call per run.     *)
(***************************************************************************)
\* the largest number of days that is added or taken away day by day
MaxShift == 3

\* a shift of more than a year
LongShift == 366

\* valid date keys: days next to a year end below year 1000, the last day
\* of year 99, days around a leap day, year ends, and days of Ramadan 1447
DateKeys ==
  {CanonKey(n) :
     n \in {NewDate(999, 11, 30), NewDate(999, 11, 31), NewDate(1000, 0, 1),
            NewDate(2024, 1, 28), NewDate(2024, 1, 29), NewDate(2024, 11, 31),
            NewDate(2025, 11, 31), NewDate(2026, 1, 19), NewDate(2026, 1, 28),
            NewDate(2026, 2, 1)}}
    \cup {<<"0", "0", "9", "9", "-", "1", "2", "-", "3", "1">>}

\* the numbers of days given to addDays
Shifts == ((0 - MaxShift)..MaxShift) \cup {0 - LongShift, LongShift}

\* the day counts that parseDays accepts
DayCounts1To30 == 1..30

\* strings given to parseTimeToMinutes: times with one and two hour digits,
\* with an annotation after a space and right after the minutes, with three
\* digits after the colon, with numbers that no clock shows, and strings
\* without the pattern at their start
TimeStrings ==
  {<<"0", "5", ":", "1", "2">>,
   <<"5", ":", "1", "2">>,
   <<"0", "5", ":", "1", "2", " ", "(", "W", "I", "B", ")">>,
   <<"1", "9", ":", "1", "5", "(", "W", "I", "B", ")">>,
   <<"0", "5", ":", "1", "2", "3">>,
   <<"2", "5", ":", "9", "9">>,
   <<"0", "0", ":", "0", "0">>,
   <<"g", "a", "r", "b", "a", "g", "e">>,
   << >>,
   <<" ", "0", "5", ":", "1", "2">>,
   <<"0", "5", ":", "1">>,
   <<"0", "5", "1", "2">>,
   <<"1", "2", "3", ":", "1", "2">>,
   <<":", "1", "2">>,
   <<"a", "0", "5", ":", "1", "2">>}

InitDates ==
  /\ calc = [op |-> "none"]
  /\ RecapIdle
  /\ ScheduleIdle
  /\ CutoffIdle
  /\ StoreIdle
  /\ RunIdle
  /\ MenuIdle

\* the variables that a date function leaves alone
notCalcVars ==
  <<recapVars, scheduleVars, cutoffVars, storeVars, runVars, menuVars>>

\* the minutes of the five times of a table, in the fixed order
TableMinutes(t) == [i \in 1..Len(PRAYER_ORDER) |-> parseTimeToMinutes(t[PRAYER_ORDER[i]])]

\* all five times of the table parse, and each is later than the one before
StrictlyIncreasing(t) ==
  LET parsed == TableMinutes(t)
  IN /\ \A i \in 1..5 : parsed[i] # {}
     /\ \A i \in 1..4 : (CHOOSE m \in parsed[i] : TRUE) < (CHOOSE m \in parsed[i + 1] : TRUE)

\* the current times of a table: every minute of the day for a table of
\* five increasing times, the minutes around its times for another
MinutesFor(t) == IF StrictlyIncreasing(t) THEN MinutesOfDay ELSE NowChoices(t)

\* addDays(dateKey, days), and addDays of the result with -days
AddDays ==
  /\ calc.op = "none"
  /\ \E dateKey \in DateKeys, days \in Shifts :
       calc' = [op |-> "addDays", dateKey |-> dateKey, days |-> days,
                result |-> addDays(dateKey, days),
                back |-> addDays(addDays(dateKey, days), 0 - days)]
  /\ UNCHANGED notCalcVars

\* buildRamadanDatesFromStart(parseDateKey(start), days)
BuildRamadanDatesFromStart ==
  /\ calc.op = "none"
  /\ \E start \in DateKeys, days \in DayCounts1To30 :
       /\ parseDateKey(start).ok
       /\ calc' = [op |-> "buildRamadanDatesFromStart", start |-> start,
                   days |-> days,
                   result |-> buildRamadanDatesFromStart(start, days)]
  /\ UNCHANGED notCalcVars

\* parseTimeToMinutes(value)
ParseTimeToMinutes ==
  /\ calc.op = "none"
  /\ \E value \in TimeStrings :
       calc' = [op |-> "parseTimeToMinutes", value |-> value,
                result |-> parseTimeToMinutes(value)]
  /\ UNCHANGED notCalcVars

\* computePrayerStatus(timings, nowMinutes)
ComputePrayerStatus ==
  /\ calc.op = "none"
  /\ \E t \in TimingTables :
       \E now \in MinutesFor(t) :
         calc' = [op |-> "computePrayerStatus", timings |-> t, now |-> now,
                  result |-> computePrayerStatus(t, now)]
  /\ UNCHANGED notCalcVars

\* resolveWinRateCutoffDateKey(config), which parses the Isha time
ResolveCutoff ==
  /\ calc.op = "none"
  /\ \E e \in Envs :
       calc' = [op |-> "resolveWinRateCutoffDateKey", env |-> e,
                result |-> resolveWinRateCutoffDateKey(e)]
  /\ UNCHANGED notCalcVars

NextDates ==
  \/ AddDays
  \/ BuildRamadanDatesFromStart
  \/ ParseTimeToMinutes
  \/ ComputePrayerStatus
  \/ ResolveCutoff

SpecDates == InitDates /\ [][NextDates]_vars

(***************************************************************************)
(* A process of the program, prompt by prompt.  cmd holds the running      *)
(* process: its command and options, the place where it waits (pc), the    *)
(* store as it was when the process started (before) and when its action   *)
(* started (entry), the answers of the setup so far, the date and the      *)
(* selection of a logging command, and the events so far (log).  A process *)
(* that has ended has pc "exit".                                            *)
(***************************************************************************)
\* most processes in one run of the model
MaxProcesses == 1

\* most dates typed at the date prompt of one backfill
MaxTyped == 2

\* store.clear(): the empty object
EmptyStore ==
  [location |-> {}, method |-> {}, school |-> {}, timezone |-> {},
   attendance |-> << >>]

\* the keys of the config
ConfigKeys == {"location", "method", "school", "timezone"}

\* setConfig(next) that stores next alone
setConfigReplacing(s, next) ==
  [location   |-> IF "location" \in DOMAIN next THEN next.location ELSE {},
   method     |-> IF "method" \in DOMAIN next THEN next.method ELSE {},
   school     |-> IF "school" \in DOMAIN next THEN next.school ELSE {},
   timezone   |-> IF "timezone" \in DOMAIN next THEN next.timezone ELSE {},
   attendance |-> << >>]

\* setConfig(next): { ...current, ...next, location: next.location ??
\* current.location }; next maps the keys that it has to their values, {}
\* for undefined, which the JSON file drops
setConfig(s, next) ==
  LET current == readState(s)
      spread(key) == IF key \in DOMAIN next THEN next[key] ELSE current[key]
  IN [location   |-> IF "location" \in DOMAIN next /\ next.location # {}
                     THEN next.location ELSE current.location,
      method     |-> spread("method"),
      school     |-> spread("school"),
      timezone   |-> spread("timezone"),
      attendance |-> current.attendance]

\* clearConfig() that removes the config and keeps the attendance
clearConfigOnly(s) == [EmptyStore EXCEPT !.attendance = s.attendance]

\* clearConfig()
clearConfig(s) == EmptyStore

\* importStore(data): the store becomes the data of the file; data that is
\* not a store is thrown back
importStore(s, data) ==
  IF data.valid THEN [ok |-> TRUE, store |-> data.store]
  ELSE [ok |-> FALSE, store |-> s]

\* hasSetup(config) that is content with a location
hasSetupLocationOnly(config) == config.location # {}

\* hasSetup(config)
hasSetup(config) ==
  config.location # {} /\ config.method # {} /\ config.school # {}

\* FALLBACK_METHODS: the ids of the built-in list
FALLBACK_METHODS == {1, 2, 3, 4, 5, 7, 17}

\* the ids of the list that fetchMethods returns
FetchedMethods == {3, 20}

\* what guessLocation returns: null, or a city with or without a timezone
Detections ==
  {[city |-> {}, country |-> {}, timezone |-> {}],
   [city |-> {"Jakarta"}, country |-> {"Indonesia"}, timezone |-> {}],
   [city |-> {"Jakarta"}, country |-> {"Indonesia"},
    timezone |-> {"Jakarta"}]}

\* the prompts of ensureSetup in their order
SetupPrompts == <<"city", "country", "method", "school", "timezone", "custom">>

\* the answers that a prompt of ensureSetup can get: {} stands for cancel;
\* a text prompt returns no empty text, a select returns one of its options
\* (of the methods the user of the model picks 3, 17 or 20)
SetupAnswers(c) ==
  {{}} \cup
  CASE c.pc = "city"     -> {{"Jakarta"}}
    [] c.pc = "country"  -> {{"Indonesia"}}
    [] c.pc = "method"   -> {{id} : id \in c.setup.offered \cap {3, 17, 20}}
    [] c.pc = "school"   -> {{0}, {1}}
    [] c.pc = "timezone" ->
         {{"custom"}, {"none"}}
           \cup (IF c.setup.detected.timezone # {} THEN {{"detected"}} ELSE {})
    [] c.pc = "custom"   -> {{"New_York"}}
    [] OTHER             -> {}

\* the process after process.exit(code) or after the action returned
Exit(c, code) == [c EXCEPT !.pc = "exit", !.exit = {code}]

\* the end of ensureSetup: the write of the config, then the action
setupWrite(c, s, timezone) ==
  LET a == c.setup
      location == [type |-> "city", city |-> a.city, country |-> a.country]
      updated  == setConfig(s, [location |-> {location}, method |-> a.method,
                                school |-> a.school, timezone |-> timezone])
  IN [store |-> updated,
      cmd |-> [c EXCEPT !.pc = "action", !.setup.timezone = timezone,
                        !.log = @ \o <<"write", "setup complete">>]]

\* ensureSetup from one prompt to the next: answer is what the pending
\* prompt returns, loaded whether fetchMethods returned
ensureSetupStep(c, s, answer, loaded) ==
  LET asked == [c EXCEPT !.log = Append(@, c.pc)]
  IN IF answer = {}
     THEN [store |-> s,
           cmd |-> Exit([asked EXCEPT !.log = Append(@, "cancel")], 0)]
     ELSE CASE c.pc = "city" ->
                 [store |-> s,
                  cmd |-> [asked EXCEPT !.pc = "country", !.setup.city = answer]]
            [] c.pc = "country" ->
                 [store |-> s,
                  cmd |-> [asked EXCEPT
                             !.pc = "method", !.setup.country = answer,
                             !.setup.offered = IF loaded THEN FetchedMethods
                                               ELSE FALLBACK_METHODS,
                             !.log = Append(@, IF loaded THEN "methods loaded"
                                               ELSE "fallback list")]]
            [] c.pc = "method" ->
                 [store |-> s,
                  cmd |-> [asked EXCEPT !.pc = "school", !.setup.method = answer]]
            [] c.pc = "school" ->
                 [store |-> s,
                  cmd |-> [asked EXCEPT !.pc = "timezone", !.setup.school = answer]]
            [] c.pc = "timezone" ->
                 IF answer = {"custom"}
                 THEN [store |-> s, cmd |-> [asked EXCEPT !.pc = "custom"]]
                 ELSE setupWrite(asked, s,
                                 IF answer = {"detected"}
                                 THEN c.setup.detected.timezone ELSE {})
            [] c.pc = "custom" -> setupWrite(asked, s, answer)

\* the setup answers of a process that has asked nothing
NoSetup ==
  [detected |-> [city |-> {}, country |-> {}, timezone |-> {}],
   city |-> {}, country |-> {}, offered |-> {}, method |-> {}, school |-> {},
   timezone |-> {}]

\* the commands that the preAction hook lets pass without ensureSetup
NoSetupCommands == {"reset", "export", "import", "about"}

\* the start of a process: the preAction hook runs ensureSetup up to its
\* first prompt, or passes to the action; with -h the hook is not
\* registered and the help is printed instead of an action
startProcess(s, command, options, detected) ==
  LET fresh == [op |-> command, options |-> options, pc |-> "action",
                before |-> s, entry |-> {}, setup |-> NoSetup,
                dateKey |-> {}, selected |-> {}, typed |-> 0,
                location |-> {}, log |-> << >>, exit |-> {}]
  IN IF options.help
     THEN Exit([fresh EXCEPT !.log = <<"help">>], 0)
     ELSE IF command \in NoSetupCommands THEN fresh
     ELSE IF hasSetup(getConfig(s))
     THEN [fresh EXCEPT !.log = <<"setup complete">>]
     ELSE [fresh EXCEPT !.pc = "city", !.setup.detected = detected,
                        !.log = <<"setup">>]

\* the process after an Error that nothing catches: Node prints it and the
\* exit code is 1
Thrown(c) == Exit([c EXCEPT !.log = Append(@, "uncaught")], 1)

\* the process after a prompt of the action was cancelled, or answered no
Cancelled(c) == Exit([c EXCEPT !.log = Append(@, "cancel")], 0)

\* the last step of a logging command: setAttendance, then the outro
writeAttendance(c, s, e, dateKey, prayers, fasted) ==
  [store |-> setAttendance(s, dateKey, prayers, fasted, e.now),
   cmd |-> Exit([c EXCEPT !.log = Append(@, "write")], 0)]

\* the reset handler from one confirm to the next with the second confirm
\* left out
resetStepOneConfirm(c, s, answer) ==
  LET asked == [c EXCEPT !.log = Append(@, c.pc)]
  IN IF answer # {TRUE} THEN [store |-> s, cmd |-> Cancelled(asked)]
     ELSE [store |-> clearConfig(s),
           cmd |-> Exit([asked EXCEPT !.log = Append(@, "clear")], 0)]

\* the reset handler from one confirm to the next: answer is {} for cancel
resetStep(c, s, answer) ==
  LET asked == [c EXCEPT !.log = Append(@, c.pc)]
  IN IF answer # {TRUE} THEN [store |-> s, cmd |-> Cancelled(asked)]
     ELSE IF c.pc = "confirm" THEN [store |-> s,
                                    cmd |-> [asked EXCEPT !.pc = "final confirm"]]
     ELSE [store |-> clearConfig(s),
           cmd |-> Exit([asked EXCEPT !.log = Append(@, "clear")], 0)]

\* the import handler after the file was read and parsed: the confirm, then
\* importStore in its try block
importStep(c, s, answer) ==
  LET asked == [c EXCEPT !.log = Append(@, c.pc)]
      done  == importStore(s, c.options.file)
  IN IF answer # {TRUE} THEN [store |-> s, cmd |-> Cancelled(asked)]
     ELSE IF ~done.ok
     THEN [store |-> s, cmd |-> Exit([asked EXCEPT !.log = Append(@, "error")], 0)]
     ELSE [store |-> done.store,
           cmd |-> Exit([asked EXCEPT !.log = Append(@, "import")], 0)]

\* promptForDate from one text prompt to the next: typed is {} for cancel,
\* else a date that the prompt's validate accepts
promptForDate(c, e, typed) ==
  IF typed = {} THEN Cancelled([c EXCEPT !.log = Append(@, "date")])
  ELSE LET parsed == backfillParseDateKey(CHOOSE v \in typed : TRUE).value
       IN IF isFutureDate(e, parsed)
          THEN [c EXCEPT !.typed = @ + 1, !.log = @ \o <<"date", "reminder">>]
          ELSE [c EXCEPT !.pc = "select", !.dateKey = {parsed},
                         !.log = Append(@, "date")]

\* mark and backfill from the multiselect on, with the prayers written
\* before the fasting question
selectStepWritesFirst(c, s, e, selected, conversion) ==
  LET dateKey  == CHOOSE k \in c.dateKey : TRUE
      existing == getAttendance(s, dateKey)
      asked    == [c EXCEPT !.log = Append(@, "select"), !.selected = selected]
      record   == RecordOf(CHOOSE sel \in selected : TRUE)
      ramadan  == isRamadanDate(conversion)
  IN IF selected = {} THEN [store |-> s, cmd |-> Cancelled(asked)]
     ELSE IF ramadan.value
     THEN [store |-> setAttendance(s, dateKey, record, FastedOf(existing), e.now),
           cmd |-> [asked EXCEPT !.pc = "fasting", !.log = Append(@, "write")]]
     ELSE writeAttendance(asked, s, e, dateKey, record, FastedOf(existing))

\* mark and backfill from the multiselect to the fasting question or the
\* write: selected is {} for cancel, conversion what isRamadanDate gets
selectStep(c, s, e, selected, conversion) ==
  LET dateKey  == CHOOSE k \in c.dateKey : TRUE
      existing == getAttendance(s, dateKey)
      asked    == [c EXCEPT !.log = Append(@, "select"), !.selected = selected]
      record   == RecordOf(CHOOSE sel \in selected : TRUE)
      ramadan  == isRamadanDate(conversion)
  IN IF selected = {} THEN [store |-> s, cmd |-> Cancelled(asked)]
     ELSE IF ramadan.threw THEN [store |-> s, cmd |-> Thrown(asked)]
     ELSE IF ramadan.value
     THEN [store |-> s, cmd |-> [asked EXCEPT !.pc = "fasting"]]
     ELSE writeAttendance(asked, s, e, dateKey, record, FastedOf(existing))

\* mark, backfill and fast from the fasting question to the write
fastingStep(c, s, e, fastingAnswer) ==
  LET dateKey == CHOOSE k \in c.dateKey : TRUE
      asked   == [c EXCEPT !.log = Append(@, "fasting")]
      prayers == IF c.op = "fast" THEN << >>
                 ELSE RecordOf(CHOOSE sel \in c.selected : TRUE)
  IN IF fastingAnswer = {} THEN [store |-> s, cmd |-> Cancelled(asked)]
     ELSE writeAttendance(asked, s, e, dateKey, prayers, fastingAnswer)

\* the process after the catch block of the schedule handler: the message
\* is printed and process.exitCode is 1
Failed(c) == Exit([c EXCEPT !.log = Append(@, "error")], 1)

\* parseOptionalNumber(value): option is {} when the option is absent
parseOptionalNumber(option) ==
  IF option = {} THEN [ok |-> TRUE, value |-> {}]
  ELSE LET parsed == NumberJS(CHOOSE v \in option : TRUE)
       IN IF ~parsed.integer
          THEN [ok |-> FALSE, message |-> "Value must be an integer"]
          ELSE [ok |-> TRUE, value |-> {parsed.n}]

\* the three checks at the head of the schedule handler
ConflictingOptions(o) ==
  \/ o.ramadan /\ Given(o.month)
  \/ o.ramadan /\ Given(o.date)
  \/ Given(o.ramadanYear) /\ (Given(o.month) \/ Given(o.date))

\* the process once resolveLocation has returned
Located(c, location) == [c EXCEPT !.pc = "fetch", !.location = {location}]

\* the schedule handler up to the first prompt of resolveLocation, or up to
\* the request when resolveLocation asks nothing
scheduleBegin(c, s) ==
  LET o == c.options
      config == getConfig(s)
  IN IF ConflictingOptions(o) THEN Failed(c)
     ELSE IF o.address # {}
     THEN Located(c, [type |-> "address", address |-> o.address])
     ELSE IF o.city # {} \/ o.country # {}
     THEN IF o.city = {} THEN [c EXCEPT !.pc = "City"]
          ELSE IF o.country = {} THEN [c EXCEPT !.pc = "Country"]
          ELSE Located(c, [type |-> "city", city |-> o.city,
                           country |-> o.country])
     ELSE IF config.location # {}
     THEN Located(c, CHOOSE l \in config.location : TRUE)
     ELSE [c EXCEPT !.pc = "locate"]

\* resolveLocation from one prompt to the next: answer is {} for cancel,
\* which ends the process with process.exit(0)
resolveLocationStep(c, answer) ==
  LET o     == c.options
      asked == [c EXCEPT !.log = Append(@, c.pc)]
      city    == IF o.city # {} THEN o.city ELSE c.setup.city
  IN IF answer = {} THEN Cancelled(asked)
     ELSE CASE c.pc = "locate" ->
                 IF answer = {"address"} THEN [asked EXCEPT !.pc = "address"]
                 ELSE [asked EXCEPT !.pc = "City"]
            [] c.pc = "address" ->
                 Located(asked, [type |-> "address", address |-> answer])
            [] c.pc = "City" ->
                 IF o.country # {}
                 THEN Located(asked, [type |-> "city", city |-> answer,
                                      country |-> o.country])
                 ELSE [asked EXCEPT !.pc = "Country", !.setup.city = answer]
            [] c.pc = "Country" ->
                 Located(asked, [type |-> "city", city |-> city,
                                 country |-> answer])

\* the answers that a prompt of resolveLocation can get
LocationAnswers(c) ==
  {{}} \cup
  CASE c.pc = "locate"  -> {{"city"}, {"address"}}
    [] c.pc = "address" -> {{"Jalan Braga 1, Bandung"}}
    [] c.pc = "City"    -> {{"Bandung"}}
    [] c.pc = "Country" -> {{"Indonesia"}}
    [] OTHER            -> {}

\* the schedule handler from the method and school options to its end:
\* reply is "ok" or "failed" for the requests of the schedule
scheduleFetch(c, s, reply) ==
  LET o        == c.options
      existing == getConfig(s)
      method   == parseOptionalNumber(o.method)
      school   == parseOptionalNumber(o.school)
      year     == ParseIfGiven(o.ramadanYear, parseHijriYear, 0)
      month    == ParseIfGiven(o.month, parseMonthInput, << >>)
      date     == ParseIfGiven(o.date, parseDateInput, 0)
      parsed   == IF o.ramadan \/ Given(o.ramadanYear) THEN year
                  ELSE IF Given(o.month) THEN month
                  ELSE date
      next     == [location |-> c.location,
                   method |-> Coalesce(method.value, existing.method),
                   school |-> Coalesce(school.value, existing.school)]
      asked    == [c EXCEPT !.log = Append(@, "fetch")]
      rendered    == [asked EXCEPT !.log = Append(@, "render")]
  IN IF ~method.ok \/ ~school.ok THEN [store |-> s, cmd |-> Failed(c)]
     ELSE IF ~parsed.ok THEN [store |-> s, cmd |-> Failed(c)]
     ELSE IF reply = "failed" THEN [store |-> s, cmd |-> Failed(asked)]
     ELSE IF o.save
     THEN [store |-> setConfig(s, next),
           cmd |-> Exit([rendered EXCEPT !.log = Append(@, "write")], 0)]
     ELSE [store |-> s, cmd |-> Exit(rendered, 0)]

\* the handler of the command up to its first prompt or request:
\* conversion is what the fast command's isRamadanDate gets
beginAction(c, s, e, conversion) ==
  LET o       == c.options
      entered == [c EXCEPT !.entry = {s}, !.log = Append(@, "action")]
      today   == formatDateKey(e, getConfig(s).timezone)
      given   == backfillParseDateKey(CHOOSE v \in o.date : TRUE)
  IN CASE c.op = "mark" ->
            [entered EXCEPT !.pc = "select", !.dateKey = {today}]
       [] c.op = "fast" ->
            IF isRamadanDate(conversion).value
            THEN [entered EXCEPT !.pc = "fasting", !.dateKey = {today}]
            ELSE Exit([entered EXCEPT !.log = Append(@, "not Ramadan")], 0)
       [] c.op = "backfill" ->
            IF ~Given(o.date) THEN [entered EXCEPT !.pc = "date"]
            ELSE IF ~given.ok THEN Thrown(entered)
            ELSE IF isFutureDate(e, given.value)
            THEN [entered EXCEPT !.pc = "date", !.log = Append(@, "reminder")]
            ELSE [entered EXCEPT !.pc = "select", !.dateKey = {given.value}]
       [] c.op = "reset" -> [entered EXCEPT !.pc = "confirm"]
       [] c.op = "import" ->
            IF o.file.readable THEN [entered EXCEPT !.pc = "import confirm"]
            ELSE Exit([entered EXCEPT !.log = Append(@, "error")], 0)
       [] c.op = "schedule" -> scheduleBegin(entered, s)
       [] OTHER -> Exit(entered, 0)

(***************************************************************************)
(* Inputs and steps of the processes.                                      *)
(***************************************************************************)
\* the location that the stores of the model hold
Jakarta == [type |-> "city", city |-> {"Jakarta"}, country |-> {"Indonesia"}]

\* the stores that a process can find: none yet, a location without method
\* and school, and a finished setup without and with a timezone override,
\* each of these with the record of 2026-02-27
SessionStores ==
  {EmptyStore,
   [EmptyStore EXCEPT !.location = {Jakarta}]}
    \cup {setAttendance([EmptyStore EXCEPT !.location = {Jakarta},
                                           !.method = {3}, !.school = {0},
                                           !.timezone = timezone],
                        CanonKey(NewDate(2026, 1, 27)), RecordOf({"Fajr"}),
                        {}, FirstInstant - ClockStep) :
            timezone \in {{}, {"Jakarta"}}}

\* the files of the import command: one that cannot be read, one that holds
\* no store, and an export with a location and the record of 2026-02-26
ImportFiles ==
  {[readable |-> FALSE, valid |-> FALSE, store |-> EmptyStore],
   [readable |-> TRUE, valid |-> FALSE, store |-> EmptyStore],
   [readable |-> TRUE, valid |-> TRUE,
    store |-> setAttendance([EmptyStore EXCEPT !.location = {Jakarta}],
                            CanonKey(NewDate(2026, 1, 26)),
                            RecordOf(AllPrayers), {TRUE},
                            FirstInstant - ClockStep)]}

\* a command line without options
NoArgs ==
  [help |-> FALSE, date |-> {}, file |-> CHOOSE f \in ImportFiles : ~f.readable,
   ramadan |-> FALSE, ramadanYear |-> {}, month |-> {}, city |-> {},
   country |-> {}, address |-> {}, method |-> {}, school |-> {},
   save |-> TRUE]

\* the option sets of the schedule command: none, each pair of conflicting
\* options, a city with and without its country, an address, --no-save, a
\* method that is no number, a month that does not exist
ScheduleArgs ==
  LET month == {<<"2", "0", "2", "6", "-", "0", "2">>}
      year  == {<<"1", "4", "4", "7">>}
      date  == {CanonKey(NewDate(2026, 1, 27))}
  IN {NoArgs,
      [NoArgs EXCEPT !.ramadan = TRUE],
      [NoArgs EXCEPT !.ramadan = TRUE, !.month = month],
      [NoArgs EXCEPT !.ramadan = TRUE, !.date = date],
      [NoArgs EXCEPT !.ramadanYear = year, !.month = month],
      [NoArgs EXCEPT !.ramadanYear = year, !.date = date],
      [NoArgs EXCEPT !.ramadanYear = year, !.city = {"Bandung"}],
      [NoArgs EXCEPT !.city = {"Bandung"}, !.country = {"Indonesia"},
                     !.method = {<<"2", "0">>}, !.school = {<<"1">>}],
      [NoArgs EXCEPT !.country = {"Indonesia"}, !.save = FALSE],
      [NoArgs EXCEPT !.address = {"Jalan Braga 1, Bandung"}],
      [NoArgs EXCEPT !.date = date, !.save = FALSE],
      [NoArgs EXCEPT !.method = {<<"a", "b", "c">>}],
      [NoArgs EXCEPT !.month = {<<"2", "0", "2", "6", "-", "1", "3">>}]}

\* the command lines of the model
SessionInputs ==
  {[command |-> command, options |-> NoArgs] :
     command \in {"mark", "fast", "reset", "about", "history"}}
    \cup {[command |-> "mark", options |-> [NoArgs EXCEPT !.help = TRUE]]}
    \cup {[command |-> "backfill", options |-> [NoArgs EXCEPT !.date = date]] :
            date \in BackfillDates}
    \cup {[command |-> "import", options |-> [NoArgs EXCEPT !.file = file]] :
            file \in ImportFiles}
    \cup {[command |-> "schedule", options |-> o] : o \in ScheduleArgs}

\* what the date prompt returns: cancel, 2026-02-27, 2026-03-01, or a date
\* of next year
TypedDates ==
  {{}} \cup {{CanonKey(n)} : n \in {NewDate(2026, 1, 27), NewDate(2026, 2, 1),
                                      NewDate(2027, 1, 28)}}

\* answers of a confirm: {} when it is cancelled
ConfirmAnswers == {{}, {TRUE}, {FALSE}}

\* answers of the service to the requests of the schedule
ScheduleReplies == {"ok", "failed"}

InitSession ==
  /\ store \in SessionStores
  /\ clock = [now |-> FirstInstant, localZone |-> "New_York", count |-> 0]
  /\ cmd = startProcess(store, "none", [NoArgs EXCEPT !.help = TRUE],
                        NoSetup.detected)
  /\ RecapIdle
  /\ ScheduleIdle
  /\ CutoffIdle
  /\ RunIdle
  /\ CalcIdle
  /\ MenuIdle

\* the variables that a process leaves alone
notSessionVars == <<recapVars, scheduleVars, cutoffVars, runVars, calcVars, menuVars>>

\* the user starts a process
StartProcess ==
  /\ cmd.pc = "exit"
  /\ clock.count < MaxProcesses
  /\ \E input \in SessionInputs, detected \in Detections :
       cmd' = startProcess(store, input.command, input.options, detected)
  /\ clock' = Tick
  /\ UNCHANGED <<store, notSessionVars>>

\* a prompt of ensureSetup is answered
AnswerSetup ==
  /\ cmd.pc \in {SetupPrompts[i] : i \in DOMAIN SetupPrompts}
  /\ \E answer \in SetupAnswers(cmd), loaded \in BOOLEAN :
       LET done == ensureSetupStep(cmd, store, answer, loaded)
       IN store' = done.store /\ cmd' = done.cmd
  /\ UNCHANGED <<clock, notSessionVars>>

\* the handler of the command starts
BeginAction ==
  /\ cmd.pc = "action"
  /\ \E conversion \in Conversions :
       cmd' = beginAction(cmd, store, clock, conversion)
  /\ UNCHANGED <<store, clock, notSessionVars>>

\* a confirm of the reset command is answered
AnswerReset ==
  /\ cmd.pc \in {"confirm", "final confirm"}
  /\ \E answer \in ConfirmAnswers :
       LET done == resetStep(cmd, store, answer)
       IN store' = done.store /\ cmd' = done.cmd
  /\ UNCHANGED <<clock, notSessionVars>>

\* the confirm of the import command is answered
AnswerImport ==
  /\ cmd.pc = "import confirm"
  /\ \E answer \in ConfirmAnswers :
       LET done == importStep(cmd, store, answer)
       IN store' = done.store /\ cmd' = done.cmd
  /\ UNCHANGED <<clock, notSessionVars>>

\* the date prompt of the backfill command is answered; the model ends the
\* loop after MaxTyped future dates
TypeDate ==
  /\ cmd.pc = "date"
  /\ \E typed \in TypedDates :
       /\ \/ cmd.typed < MaxTyped
          \/ typed = {}
          \/ typed # {} /\ ~isFutureDate(clock, CHOOSE v \in typed : TRUE)
       /\ cmd' = promptForDate(cmd, clock, typed)
  /\ UNCHANGED <<store, clock, notSessionVars>>

\* the multiselect of mark or backfill is answered
AnswerSelect ==
  /\ cmd.pc = "select"
  /\ \E selected \in SelectAnswers, conversion \in Conversions :
       LET done == selectStep(cmd, store, clock, selected, conversion)
       IN store' = done.store /\ cmd' = done.cmd
  /\ UNCHANGED <<clock, notSessionVars>>

\* the fasting question is answered
AnswerFasting ==
  /\ cmd.pc = "fasting"
  /\ \E fastingAnswer \in ConfirmAnswers :
       LET done == fastingStep(cmd, store, clock, fastingAnswer)
       IN store' = done.store /\ cmd' = done.cmd
  /\ UNCHANGED <<clock, notSessionVars>>

\* a prompt of resolveLocation is answered
AnswerLocation ==
  /\ cmd.pc \in {"locate", "address", "City", "Country"}
  /\ \E answer \in LocationAnswers(cmd) :
       cmd' = resolveLocationStep(cmd, answer)
  /\ UNCHANGED <<store, clock, notSessionVars>>

\* the schedule is requested, rendered and saved
FetchSchedule ==
  /\ cmd.pc = "fetch"
  /\ \E reply \in ScheduleReplies :
       LET done == scheduleFetch(cmd, store, reply)
       IN store' = done.store /\ cmd' = done.cmd
  /\ UNCHANGED <<clock, notSessionVars>>

NextSession ==
  \/ StartProcess
  \/ AnswerSetup
  \/ BeginAction
  \/ AnswerReset
  \/ AnswerImport
  \/ TypeDate
  \/ AnswerSelect
  \/ AnswerFasting
  \/ AnswerLocation
  \/ FetchSchedule

SpecSession == InitSession /\ [][NextSession]_vars

(***************************************************************************)
(* The interactive menu (cli.ts, runInteractiveMenu of commands/           *)
(* schedule.ts).  menu.procs is the stack of the running processes: the    *)
(* process that the user started, and above it the child that spawnSync    *)
(* is waiting for.  A process has the arguments it was started with        *)
(* (started), the value of ROZA_INTERACTIVE in its environment (env,       *)
(* "unset" when the variable is absent), its command line after cli.ts     *)
(* (args), the place where it is (pc) and its events (log).                *)
(***************************************************************************)
\* most turns of the loop of one menu in a run of the model
MaxTurns == 2

\* cli.ts: a process without arguments sets ROZA_INTERACTIVE to 1 and
\* becomes the schedule command; -h and --help are left to commander
newProcess(inherited, argv) ==
  LET wantsHelp == \E i \in 1..Len(argv) : argv[i] \in {"-h", "--help"}
      home      == ~wantsHelp /\ Len(argv) = 0
  IN [started |-> argv,
      env     |-> IF home THEN "1" ELSE inherited,
      args    |-> IF home THEN <<"schedule">> ELSE argv,
      pc      |-> IF wantsHelp THEN "done" ELSE "command",
      sub     |-> "none",
      turns   |-> 0,
      log     |-> IF wantsHelp THEN <<"help">> ELSE << >>]

\* shouldShowMenu()
shouldShowMenu(p) == p.env = "1"

\* the environment of a child that inherits ROZA_INTERACTIVE
childEnvInherited(inherited) == inherited

\* childEnv: { ...process.env, ROZA_INTERACTIVE: '0' }
childEnv(inherited) == "0"

\* the command of a process runs up to the call of runInteractiveMenu, which
\* only the schedule handler makes, after it has rendered and saved:
\* outcome is "rendered", "failed" (caught by the handler) or "cancelled"
\* (the setup was cancelled and the process has exited)
runCommand(p, outcome) ==
  IF p.args[1] # "schedule"
  THEN [p EXCEPT !.pc = "done", !.log = Append(@, "ran")]
  ELSE IF outcome # "rendered"
  THEN [p EXCEPT !.pc = "done", !.log = Append(@, outcome)]
  ELSE IF ~shouldShowMenu(p)
  THEN [p EXCEPT !.pc = "done", !.log = Append(@, "rendered")]
  ELSE [p EXCEPT !.pc = "main", !.log = @ \o <<"rendered", "menu">>]

\* the options of the main menu and of its three submenus
MainOptions == {"schedule", "log", "ramadan", "settings", "exit"}

SubOptions ==
  [log      |-> {"mark", "fast", "backfill", "back"},
   ramadan  |-> {"schedule-ramadan", "history-ramadan", "recap-ramadan",
                 "back"},
   settings |-> {"export", "import", "reset", "about", "back"}]

\* the arguments of the child for a choice of a menu
ChildArgs(choice) ==
  CASE choice = "schedule-ramadan" -> <<"schedule", "--ramadan">>
    [] choice = "history-ramadan"  -> <<"history", "--ramadan">>
    [] choice = "recap-ramadan"    -> <<"recap", "--ramadan">>
    [] OTHER                       -> <<choice>>

\* spawnSync(process.execPath, argv, { env: childEnv }): the stack after
\* the call, with the child on top, or the parent that returns from the
\* menu when child.error is set
spawnSync(procs, choice, error) ==
  LET parent == procs[Len(procs)]
      rest   == SubSeq(procs, 1, Len(procs) - 1)
  IN IF error
     THEN Append(rest, [parent EXCEPT !.pc = "done", !.sub = "none",
                                      !.log = @ \o <<choice, "failed to run">>])
     ELSE Append(rest, [parent EXCEPT !.pc = "waiting", !.sub = "none",
                                      !.turns = @ + 1,
                                      !.log = @ \o <<choice, "spawn">>])
            \o <<newProcess(childEnv(parent.env), ChildArgs(choice))>>

\* the main select of runInteractiveMenu: action is {} for cancel
chooseMain(procs, action, error) ==
  LET parent == procs[Len(procs)]
      rest   == SubSeq(procs, 1, Len(procs) - 1)
  IN IF action = {}
     THEN Append(rest, [parent EXCEPT !.pc = "done", !.log = Append(@, "cancel")])
     ELSE IF action = {"exit"}
     THEN Append(rest, [parent EXCEPT !.pc = "done", !.log = Append(@, "exit")])
     ELSE IF action = {"schedule"}
     THEN spawnSync(procs, "schedule", error)
     ELSE Append(rest, [parent EXCEPT !.pc = "sub",
                                      !.sub = CHOOSE a \in action : TRUE,
                                      !.log = Append(@, "submenu")])

\* the select of a submenu: Back and cancel continue the loop
chooseSub(procs, action, error) ==
  LET parent == procs[Len(procs)]
      rest   == SubSeq(procs, 1, Len(procs) - 1)
  IN IF action = {} \/ action = {"back"}
     THEN Append(rest, [parent EXCEPT !.pc = "main", !.sub = "none",
                                      !.turns = @ + 1,
                                      !.log = @ \o <<"back", "menu">>])
     ELSE spawnSync(procs, CHOOSE a \in action : TRUE, error)

\* spawnSync returns without error: the loop shows the main menu again
childReturns(procs) ==
  LET parent == procs[Len(procs) - 1]
      rest   == SubSeq(procs, 1, Len(procs) - 2)
  IN Append(rest, [parent EXCEPT !.pc = "main",
                                 !.log = @ \o <<"child done", "menu">>])

\* the command lines that the user starts
UserArgs ==
  {<< >>, <<"schedule">>, <<"schedule", "--ramadan">>, <<"mark">>,
   <<"reset">>, <<"-h">>, <<"schedule", "--help">>}

\* how the schedule command of a process ends
ScheduleOutcomes == {"rendered", "failed", "cancelled"}

InitMenu ==
  /\ menu = [pc |-> "ready", procs |-> << >>]
  /\ RecapIdle
  /\ ScheduleIdle
  /\ CutoffIdle
  /\ StoreIdle
  /\ RunIdle
  /\ CalcIdle

\* the variables that the menu leaves alone
notMenuVars == <<recapVars, scheduleVars, cutoffVars, storeVars, runVars, calcVars>>

\* the process on top of the stack
Top == menu.procs[Len(menu.procs)]

\* the user starts the program; the variable is absent in the user's shell
Launch ==
  /\ menu.pc = "ready"
  /\ \E argv \in UserArgs :
       menu' = [pc |-> "running", procs |-> <<newProcess("unset", argv)>>]
  /\ UNCHANGED notMenuVars

\* the command of the process on top runs
RunCommand ==
  /\ menu.pc = "running"
  /\ Top.pc = "command"
  /\ \E outcome \in ScheduleOutcomes :
       menu' = [menu EXCEPT !.procs[Len(menu.procs)] = runCommand(Top, outcome)]
  /\ UNCHANGED notMenuVars

\* the main menu is answered; the model ends the loop after MaxTurns turns
ChooseMain ==
  /\ menu.pc = "running"
  /\ Top.pc = "main"
  /\ \E action \in {{}} \cup {{a} : a \in MainOptions}, error \in BOOLEAN :
       /\ Top.turns < MaxTurns \/ action \in {{}, {"exit"}}
       /\ menu' = [menu EXCEPT !.procs = chooseMain(menu.procs, action, error)]
  /\ UNCHANGED notMenuVars

\* a submenu is answered
ChooseSub ==
  /\ menu.pc = "running"
  /\ Top.pc = "sub"
  /\ \E action \in {{}} \cup {{a} : a \in SubOptions[Top.sub]},
        error \in BOOLEAN :
       menu' = [menu EXCEPT !.procs = chooseSub(menu.procs, action, error)]
  /\ UNCHANGED notMenuVars

\* the child has ended and spawnSync returns
ChildReturns ==
  /\ menu.pc = "running"
  /\ Len(menu.procs) > 1
  /\ Top.pc = "done"
  /\ menu' = [menu EXCEPT !.procs = childReturns(menu.procs)]
  /\ UNCHANGED notMenuVars

NextMenu == Launch \/ RunCommand \/ ChooseMain \/ ChooseSub \/ ChildReturns

SpecMenu == InitMenu /\ [][NextMenu]_vars

(***************************************************************************)
(* Properties of the aggregation functions.  The calendar day a canonical  *)
(* key denotes is DateOfKey of it; "earlier" and "later" below are in      *)
(* calendar days.                                                          *)
(***************************************************************************)
AllTrue(row) == \A p \in AllPrayers : p \in DOMAIN row.prayers /\ row.prayers[p] = TRUE

SomeTrue(row) == \E p \in AllPrayers : p \in DOMAIN row.prayers /\ row.prayers[p] = TRUE

\* positions of the rows dated on or before the cutoff day
UpTo(list, cutoffDateKey) ==
  {i \in 1..Len(list) : DateOfKey(list[i].date) <= DateOfKey(cutoffDateKey)}

\* the list without the rows dated after the cutoff day
Without(list, cutoffDateKey) ==
  LET keep == UpTo(list, cutoffDateKey)
      RECURSIVE Pick(_)
      Pick(i) == IF i > Len(list) THEN << >>
                 ELSE (IF i \in keep THEN <<list[i]>> ELSE << >>) \o Pick(i + 1)
  IN Pick(1)

\* p is completed / total as a percentage rounded to the nearest integer
IsRoundedPercent(p, completed, total) ==
  IF total = 0 THEN p = 0
  ELSE /\ 2 * total * p <= 200 * completed + total
       /\ 200 * completed + total < 2 * total * (p + 1)

\* C2: calcPrayerRate considers only the rows dated on or before the cutoff:
\* total is their number, completed the number of them with all five prayers
\* true, completed <= total, percent the rounded ratio (0 when total = 0), and
\* rows dated after the cutoff change none of the three values.
PrayerRateUpToCutoff ==
  agg.op = "calcPrayerRate" =>
    LET scope == UpTo(rows, agg.cutoff)
    IN /\ agg.result.total = Cardinality(scope)
       /\ agg.result.completed = Cardinality({i \in scope : AllTrue(rows[i])})
       /\ agg.result.completed <= agg.result.total
       /\ IsRoundedPercent(agg.result.percent, agg.result.completed,
                           agg.result.total)
       /\ agg.result = calcPrayerRate(Without(rows, agg.cutoff), agg.cutoff)

\* C2 witness: a perfect and a non-perfect day are counted while a third row,
\* dated after the cutoff, is left out
PrayerRateWitness ==
  /\ agg.op = "calcPrayerRate"
  /\ \E i \in 1..Len(rows) : DateOfKey(rows[i].date) > DateOfKey(agg.cutoff)
  /\ agg.result = [percent |-> 50, completed |-> 1, total |-> 2]

\* C3: calcFastingRate counts as completed exactly the rows on or before the
\* cutoff whose fasted flag is true; rows whose flag is false or absent count
\* in total only, and rows after the cutoff count in neither.
FastingRateCountsTrueOnly ==
  agg.op = "calcFastingRate" =>
    LET scope == UpTo(rows, agg.cutoff)
    IN /\ agg.result.completed =
            Cardinality({i \in scope : rows[i].fasted = {TRUE}})
       /\ agg.result.total =
            agg.result.completed
              + Cardinality({i \in scope : rows[i].fasted = {FALSE}})
              + Cardinality({i \in scope : rows[i].fasted = {}})
       /\ agg.result.total = Cardinality(scope)

\* C3 witness: a fasted day and an unrecorded day are counted, a fasted day
\* after the cutoff is not
FastingRateWitness ==
  /\ agg.op = "calcFastingRate"
  /\ \E i \in 1..Len(rows) :
       /\ DateOfKey(rows[i].date) > DateOfKey(agg.cutoff)
       /\ rows[i].fasted = {TRUE}
  /\ \E i \in UpTo(rows, agg.cutoff) : rows[i].fasted = {}
  /\ agg.result.completed = 1
  /\ agg.result.total = 2

\* C7: calcSummary returns totalDays = number of rows, total = 5 * rows,
\* completed = number of true prayer flags with 0 <= completed <= total and
\* 0 <= percent <= 100; for the empty list every field is 0.
SummaryTotals ==
  agg.op = "calcSummary" =>
    /\ agg.result.totalDays = Len(rows)
    /\ agg.result.total = 5 * Len(rows)
    /\ agg.result.completed =
         Cardinality({ip \in (1..Len(rows)) \X AllPrayers :
                        /\ ip[2] \in DOMAIN rows[ip[1]].prayers
                        /\ rows[ip[1]].prayers[ip[2]] = TRUE})
    /\ 0 <= agg.result.completed
    /\ agg.result.completed <= agg.result.total
    /\ 0 <= agg.result.percent
    /\ agg.result.percent <= 100
    /\ (rows = << >> =>
          agg.result = [totalDays |-> 0, completed |-> 0, total |-> 0,
                        percent |-> 0, activeDays |-> 0, perfectDays |-> 0,
                        averagePerDay |-> 0])

\* C7 witness: three rows with 9 of 15 prayers, 60 percent
SummaryWitness ==
  /\ agg.op = "calcSummary"
  /\ Len(rows) = 3
  /\ agg.result.completed = 9
  /\ agg.result.total = 15
  /\ agg.result.percent = 60

\* C8: perfectDays is the number of rows with all five prayers true and
\* activeDays the number of rows with at least one true prayer, an absent
\* entry counting as not completed; so perfectDays <= activeDays <= totalDays.
SummaryPerfectAndActiveDays ==
  agg.op = "calcSummary" =>
    /\ agg.result.perfectDays =
         Cardinality({i \in 1..Len(rows) : AllTrue(rows[i])})
    /\ agg.result.activeDays =
         Cardinality({i \in 1..Len(rows) : SomeTrue(rows[i])})
    /\ agg.result.perfectDays <= agg.result.activeDays
    /\ agg.result.activeDays <= agg.result.totalDays

\* C8 witness: a perfect day, a day with four of five prayers and a day with
\* no completed prayer
SummaryDaysWitness ==
  /\ agg.op = "calcSummary"
  /\ \E i \in 1..Len(rows) : CompletedCount(rows[i]) = 4
  /\ agg.result.perfectDays = 1
  /\ agg.result.activeDays = 2
  /\ agg.result.totalDays = 3

\* the calendar days of the rows of a list
DaysOf(list) == {DateOfKey(list[i].date) : i \in 1..Len(list)}

Earliest(list) == CHOOSE d \in DaysOf(list) : \A e \in DaysOf(list) : d <= e

Latest(list) == CHOOSE d \in DaysOf(list) : \A e \in DaysOf(list) : e <= d

\* the first day of year 1000, from which on addDays writes four year digits
FirstFourDigitDay == NewDate(1000, 0, 1)

\* out is list made dense: one row per calendar day from the earliest to the
\* latest day of list, the rows of list unchanged at their days, and an empty
\* placeholder at every other day
IsDenseExpansion(list, out) ==
  IF list = << >> THEN out = << >>
  ELSE LET lo == Earliest(list)
           hi == Latest(list)
       IN /\ Len(out) = hi - lo + 1
          /\ \A k \in 1..Len(out) :
               /\ DateOfKey(out[k].date) = lo + k - 1
               /\ IF \E i \in 1..Len(list) : DateOfKey(list[i].date) = lo + k - 1
                  THEN \E i \in 1..Len(list) : out[k] = list[i]
                  ELSE /\ out[k].prayers = << >>
                       /\ out[k].fasted = {}
                       /\ out[k].updatedAt = ""

\* C9: for every non-empty set of rows with canonical, distinct date keys
\* expandAttendance returns one row per calendar day from the earliest to the
\* latest input date inclusive, in ascending consecutive order, the input
\* rows unchanged and every gap row an empty placeholder; for the empty input
\* it returns the empty list.
ExpandIsDense ==
  agg.op = "expandAttendance" => IsDenseExpansion(rows, agg.result)

\* The same for rows dated in year 1000 or later (the dates of the model end
\* long before year 9999).
ExpandIsDenseFrom1000 ==
  (agg.op = "expandAttendance" /\ \A d \in DaysOf(rows) : d >= FirstFourDigitDay)
    => IsDenseExpansion(rows, agg.result)

\* A gap is filled between two recorded days of year 1000 or later.
ExpandFrom1000Witness ==
  /\ agg.op = "expandAttendance"
  /\ \A d \in DaysOf(rows) : d >= FirstFourDigitDay
  /\ Len(rows) = 2
  /\ Len(agg.result) = WindowLen
  /\ \E k \in 1..Len(agg.result) : agg.result[k].updatedAt = ""

\* out holds, in ascending date order, exactly the rows of list dated within
\* the days counted back from the latest row of list, which is among them
IsLastDaysWindow(list, days, out) ==
  LET hi   == Latest(list)
      kept == {i \in 1..Len(list) :
                 /\ hi - (days - 1) <= DateOfKey(list[i].date)
                 /\ DateOfKey(list[i].date) <= hi}
  IN /\ Len(out) = Cardinality(kept)
     /\ \A k \in 1..Len(out) : \E i \in kept : out[k] = list[i]
     /\ \A k \in 1..(Len(out) - 1) :
          DateOfKey(out[k].date) < DateOfKey(out[k + 1].date)
     /\ \E k \in 1..Len(out) : DateOfKey(out[k].date) = hi

\* C10: for every non-empty list of rows and every n >= 1, filterByDays
\* returns, in ascending date order, exactly the rows dated from n - 1 days
\* before the latest row up to the latest row, so the latest row is always in
\* the result.
FilterKeepsLastDays ==
  (agg.op = "filterByDays" /\ rows # << >>)
    => IsLastDaysWindow(rows, agg.days, agg.result)

\* The same when the first day of the window is in year 1000 or later.
FilterKeepsLastDaysFrom1000 ==
  (/\ agg.op = "filterByDays"
   /\ rows # << >>
   /\ Latest(rows) - (agg.days - 1) >= FirstFourDigitDay)
    => IsLastDaysWindow(rows, agg.days, agg.result)

\* Rows of 2024 or later with a long range: nothing is returned.
FilterLongRangeKeepsLatest ==
  (/\ agg.op = "filterByDays"
   /\ rows # << >>
   /\ \A d \in DaysOf(rows) : d >= NewDate(2024, 0, 1))
    => agg.result # << >>

\* A window of two days drops the earliest of three recorded days.
FilterFrom1000Witness ==
  /\ agg.op = "filterByDays"
  /\ Latest(rows) - (agg.days - 1) >= FirstFourDigitDay
  /\ agg.days = 2
  /\ Len(rows) = 3
  /\ Len(agg.result) < 3

(***************************************************************************)
(* Properties of the prayer status.                                        *)
(***************************************************************************)
FixedOrder == <<"Fajr", "Dhuhr", "Asr", "Maghrib", "Isha">>

\* the parsed minutes of the i-th prayer of the shown table, {} if its time
\* does not parse
ParsedAt(i) == parseTimeToMinutes(timings[FixedOrder[i]])

\* C4: next is the first prayer in the order Fajr, Dhuhr, Asr, Maghrib, Isha
\* whose parsed minutes are strictly greater than the current minutes,
\* prayers with unparseable times being skipped; if there is none and Fajr
\* parses, next is Fajr with minute value Fajr + 1440; if there is none and
\* Fajr does not parse, next, nextTime and minutesAway are all undefined.
NextIsFirstLaterPrayer ==
  shown.op = "renderDailySchedule" =>
    LET st    == shown.prayerStatus
        later == {i \in 1..5 : \E m \in ParsedAt(i) : m > nowMinutes}
    IN IF later # {}
       THEN LET i == CHOOSE i \in later : \A j \in later : i <= j
            IN /\ st.next = {FixedOrder[i]}
               /\ st.nextTime = {extractTime(timings[FixedOrder[i]])}
               /\ st.minutesAway = {m - nowMinutes : m \in ParsedAt(i)}
       ELSE IF ParsedAt(1) # {}
       THEN /\ st.next = {"Fajr"}
            /\ st.nextTime = {extractTime(timings["Fajr"])}
            /\ st.minutesAway = {m + 1440 - nowMinutes : m \in ParsedAt(1)}
       ELSE /\ st.next = {}
            /\ st.nextTime = {}
            /\ st.minutesAway = {}

\* C4 witness: at 20:00, past an Isha of 19:15, next wraps to the Fajr of
\* 05:00, 540 minutes away
NextWrapsWitness ==
  /\ shown.op = "renderDailySchedule"
  /\ nowMinutes = 1200
  /\ ParsedAt(5) = {1155}
  /\ shown.prayerStatus.next = {"Fajr"}
  /\ shown.prayerStatus.minutesAway = {540}

MinutesAwayNotNegative ==
  (shown.op = "renderDailySchedule" /\ shown.prayerStatus.minutesAway # {}) =>
    /\ nowMinutes \in 0..1439
    /\ Cardinality(shown.prayerStatus.next) = 1
    /\ \A away \in shown.prayerStatus.minutesAway :
         /\ away >= 0
         /\ \E v \in parseTimeToMinutes(
                       timings[CHOOSE p \in shown.prayerStatus.next : TRUE]) :
              \/ v > nowMinutes /\ away = v - nowMinutes
              \/ /\ v <= nowMinutes
                 /\ shown.prayerStatus.next = {"Fajr"}
                 /\ away = (v + 1440) - nowMinutes

\* C6 witness: one minute before midnight next is tomorrow's Fajr of 4:45,
\* 286 minutes away
MinutesAwayWrapWitness ==
  /\ shown.op = "renderDailySchedule"
  /\ nowMinutes = 1439
  /\ ParsedAt(1) = {285}
  /\ shown.prayerStatus.next = {"Fajr"}
  /\ shown.prayerStatus.minutesAway = {286}
  /\ shown.nextLabel[3] = <<"4", "h", " ", "4", "6", "m">>

(***************************************************************************)
(* Properties of the win-rate cutoff.                                      *)
(***************************************************************************)
\* the zone whose calendar gives "today": the override if Intl resolves it,
\* else the zone of the process
TodayZone ==
  IF env.config.timezone \cap DOMAIN ZoneOffsets # {}
  THEN CHOOSE z \in env.config.timezone : TRUE
  ELSE env.localZone

\* the zone whose clock is compared with Isha: the override, else the zone
\* of the fetched timings, and the zone of the process if Intl rejects it
ClockZone ==
  LET asked == IF env.config.timezone # {}
               THEN CHOOSE z \in env.config.timezone : TRUE
               ELSE env.fetch.timezone
  IN IF asked \in DOMAIN ZoneOffsets THEN asked ELSE env.localZone

\* the number of today's calendar day
TodayDay == (env.now + ZoneOffsets[TodayZone]) \div 1440

\* a location is configured, today's timings were fetched, Isha parses and
\* the current minutes of the day are >= the minutes of Isha
IshaHasPassed ==
  /\ env.config.location # {}
  /\ env.fetch.ok
  /\ \E isha \in parseTimeToMinutes(env.fetch.timings.Isha) :
       (env.now + ZoneOffsets[ClockZone]) % 1440 >= isha

\* C1: resolveWinRateCutoffDateKey returns today's date key exactly when a
\* location is configured, today's timings were fetched, the Isha time parses
\* and the current minutes of the day are >= the Isha minutes; in every other
\* case it returns yesterday; it never returns any other date.
CutoffIsTodayOnlyAfterIsha ==
  cutoff.op = "resolveWinRateCutoffDateKey" =>
    /\ cutoff.result \in {CanonKey(TodayDay), CanonKey(TodayDay - 1)}
    /\ cutoff.result = CanonKey(TodayDay) <=> IshaHasPassed
    /\ cutoff.result = CanonKey(TodayDay - 1) <=> ~IshaHasPassed

\* C1 witness: at the very minute of Isha the cutoff is today
CutoffAtIshaWitness ==
  /\ cutoff.op = "resolveWinRateCutoffDateKey"
  /\ env.fetch.ok
  /\ parseTimeToMinutes(env.fetch.timings.Isha)
       = {(env.now + ZoneOffsets[ClockZone]) % 1440}
  /\ cutoff.result = CanonKey(TodayDay)

(***************************************************************************)
(* Properties of the attendance store and of the logging commands.         *)
(***************************************************************************)
\* the last command was mark, backfill or fast
Logged == cmd.op \in {"mark", "backfill", "fast"}

\* the setAttendance call of the last command
TheCall == CHOOSE c \in cmd.call : TRUE

\* the keys of an attendance object
KeysOf(attendance) == {attendance[i].key : i \in 1..Len(attendance)}

\* C11: setAttendance(dateKey, prayers, fasted?) merges into the existing
\* record of dateKey: a prayer given in the new map takes the new value, a
\* prayer not given keeps its prior value (or stays without an entry), fasted
\* changes only when it is provided, updatedAt is refreshed; the records of
\* all other dates and the user config are unchanged.
SetAttendanceMerges ==
  (Logged /\ cmd.call # {}) =>
    LET c   == TheCall
        old == Lookup(cmd.before.attendance, c.dateKey)
        new == Lookup(store.attendance, c.dateKey)
    IN /\ Cardinality(new) = 1
       /\ \A r \in new :
            /\ r.date = c.dateKey
            /\ \A p \in DOMAIN c.prayers :
                 p \in DOMAIN r.prayers /\ r.prayers[p] = c.prayers[p]
            /\ \A p \in AllPrayers \ DOMAIN c.prayers :
                 /\ old = {} => p \notin DOMAIN r.prayers
                 /\ \A o \in old :
                      /\ p \in DOMAIN r.prayers <=> p \in DOMAIN o.prayers
                      /\ p \in DOMAIN o.prayers => r.prayers[p] = o.prayers[p]
            /\ c.fasted # {} => r.fasted = c.fasted
            /\ (c.fasted = {} /\ old = {}) => r.fasted = {}
            /\ c.fasted = {} => \A o \in old : r.fasted = o.fasted
            /\ r.updatedAt = toISOString(c.now)
            /\ \A o \in old : StrLess(o.updatedAt, r.updatedAt)
       /\ KeysOf(store.attendance) = KeysOf(cmd.before.attendance) \cup {c.dateKey}
       /\ \A k \in KeysOf(cmd.before.attendance) \ {c.dateKey} :
            Lookup(store.attendance, k) = Lookup(cmd.before.attendance, k)
       /\ getConfig(store) = getConfig(cmd.before)

\* C11 witness: a fast is saved for a date whose record has all five prayers
\* entered, with an answer that differs from the stored fasted value
MergeOverMarkedDayWitness ==
  /\ cmd.op = "fast"
  /\ cmd.call # {}
  /\ \E o \in Lookup(cmd.before.attendance, TheCall.dateKey) :
       /\ DOMAIN o.prayers = AllPrayers
       /\ o.prayers["Fajr"] = TRUE
       /\ o.fasted # TheCall.fasted

\* C12: after any sequence of setAttendance calls from mark, backfill and
\* fast, the store holds at most one record per date key, every record's
\* date is the key it is stored under, getAttendance(d) returns that record,
\* and listAttendance returns all the records in ascending order of their
\* calendar dates with no date repeated.
StoreHoldsOneRecordPerDate ==
  LET attendance == store.attendance
      list       == listAttendance(store)
  IN /\ \A i, j \in 1..Len(attendance) :
          attendance[i].key = attendance[j].key => i = j
     /\ \A i \in 1..Len(attendance) :
          /\ attendance[i].value.date = attendance[i].key
          /\ getAttendance(store, attendance[i].key) = {attendance[i].value}
     /\ Len(list) = Len(attendance)
     /\ {list[i] : i \in 1..Len(list)}
          = {attendance[i].value : i \in 1..Len(attendance)}
     /\ \A i, j \in 1..Len(list) :
          i < j => DateOfKey(list[i].date) < DateOfKey(list[j].date)

\* C12 witness: the record of an earlier date was stored after the record
\* of a later date
EarlierDateStoredLaterWitness ==
  /\ Logged
  /\ Len(store.attendance) >= 2
  /\ StrLess(store.attendance[2].key, store.attendance[1].key)

\* the stored fasted flag of a date in a store: {} when the date has no
\* record or its record has no flag
StoredFasted(s, dateKey) ==
  UNION {r.fasted : r \in Lookup(s.attendance, dateKey)}

\* C13: the fasted flag is tri-state and is never collapsed.  A command
\* changes the fasted flag of a date only to the answer that was confirmed
\* for that date in that command, so from the empty store a flag is absent
\* unless an answer was confirmed for its date; a mark or backfill of a date
\* that is not resolved as Ramadan passes on the existing flag, so an absent
\* flag stays absent; the rows of the Ramadan recap carry the stored flag.
FastedStaysTriState ==
  /\ Logged =>
       \A k \in KeysOf(store.attendance) :
         StoredFasted(store, k) # StoredFasted(cmd.before, k) =>
           /\ cmd.dateKey = {k}
           /\ cmd.answer # {}
           /\ StoredFasted(store, k) = cmd.answer
  /\ (cmd.op \in {"mark", "backfill"} /\ cmd.call # {}
        /\ \A ramadan \in cmd.ramadan : ~ramadan.value) =>
       /\ TheCall.fasted = StoredFasted(cmd.before, TheCall.dateKey)
       /\ StoredFasted(store, TheCall.dateKey)
            = StoredFasted(cmd.before, TheCall.dateKey)
  /\ cmd.op = "recap" =>
       \A i \in 1..Len(cmd.rows) :
         /\ cmd.rows[i].date = cmd.ramadanDates[i]
         /\ cmd.rows[i].fasted = StoredFasted(store, cmd.rows[i].date)

\* C13 witness: the recap shows a day that was logged (on a date not taken
\* as Ramadan) and has no fasted flag, next to a day recorded as not fasted
AbsentAndFalseShownWitness ==
  /\ cmd.op = "recap"
  /\ \E i, j \in 1..Len(cmd.rows) :
       /\ cmd.rows[i].updatedAt # << >>
       /\ DOMAIN cmd.rows[i].prayers = AllPrayers
       /\ cmd.rows[i].fasted = {}
       /\ cmd.rows[j].fasted = {FALSE}

\* the date and the selection of the last mark or backfill
TheDate == CHOOSE d \in cmd.dateKey : TRUE

TheSelection == CHOOSE sel \in cmd.selected : TRUE

\* the prayers stored as true for a date
StoredTrue(s, dateKey) ==
  {p \in AllPrayers : \E r \in Lookup(s.attendance, dateKey) :
     p \in DOMAIN r.prayers /\ r.prayers[p] = TRUE}

\* C14: after a mark or backfill for date d completes with selected set S
\* the stored record of d has prayers[p] = (p in S) for each of the five
\* prayers, so a prayer stored true and deselected becomes false; the prompt's
\* initial selection is the set of prayers stored as true for d before.
MarkStoresTheSelection ==
  (cmd.op \in {"mark", "backfill"} /\ cmd.dateKey # {}) =>
    /\ cmd.initialValues = {StoredTrue(cmd.before, TheDate)}
    /\ cmd.outcome = "saved" =>
         /\ Cardinality(Lookup(store.attendance, TheDate)) = 1
         /\ \A r \in Lookup(store.attendance, TheDate) :
              /\ DOMAIN r.prayers = AllPrayers
              /\ \A p \in AllPrayers : r.prayers[p] = (p \in TheSelection)
         /\ StoredTrue(store, TheDate) = TheSelection

\* C14 witness: a prayer stored as true is deselected and saved
DeselectedPrayerWitness ==
  /\ cmd.op \in {"mark", "backfill"}
  /\ cmd.outcome = "saved"
  /\ "Maghrib" \in StoredTrue(cmd.before, TheDate)
  /\ "Maghrib" \notin TheSelection
  /\ "Fajr" \in TheSelection

(***************************************************************************)
(* Properties of the runs of history, recap, schedule and backfill.        *)
(***************************************************************************)
\* the events of a kind in the log
Count(log, event) == Cardinality({i \in 1..Len(log) : log[i] = event})

\* the run is a history run that has sent its batch of conversion calls
InBatch == run.command = "history" /\ run.dates # << >>

\* the day that new Date reads from the --ramadan-start of the run
StartDay == DateOfKey(Opt(run.options.ramadanStart))

\* C15: in the start-derived Ramadan path of history the conversion calls
\* are sent as one batch before anything else happens; whatever the order in
\* which they complete, no row is printed while a call is pending or after a
\* call has failed, and the rows that are printed are one per call, in
\* ascending date order, row i with the date i - 1 days after the start and
\* with the Hijri label that the service returned for that date.
HistoryBatchKeepsDateOrder ==
  InBatch =>
    /\ Len(term.log) >= Len(run.dates)
    /\ \A i \in 1..Len(run.dates) : term.log[i] = "fetch"
    /\ Count(term.log, "fetch") = Len(run.dates)
    /\ (run.pending # {} \/ DOMAIN run.results # 1..Len(run.dates))
         => term.rows = << >>
    /\ term.rows # << >> =>
         /\ Len(term.rows) = Len(run.dates)
         /\ \A i \in 1..Len(term.rows) :
              /\ term.rows[i].date.dateKey = CanonKey(StartDay + i - 1)
              /\ term.rows[i].date.hijriLabel
                   = formatHijriLabel(HijriOf(CanonKey(StartDay + i - 1)))
              /\ i > 1 => StrLess(term.rows[i - 1].date.dateKey,
                                  term.rows[i].date.dateKey)

\* the rows of a batch of three calls are printed after the call for the
\* last date completed first and the call for the first date last
LastCallCompletedFirstWitness ==
  /\ InBatch
  /\ Len(term.rows) = 3
  /\ run.order = <<3, 2, 1>>
  /\ term.rows[1].date.hijriLabel # term.rows[3].date.hijriLabel

\* the indices of the conversion calls that were rejected
RejectedCalls == {run.order[k] : k \in 1..Len(run.order)} \ DOMAIN run.results

\* a request for the Hijri calendar or a conversion call of the run failed
HijriFetchFailed ==
  /\ run.command \in {"history", "recap"}
  /\ run.reply = {"failed"} \/ RejectedCalls # {}

\* C16: when the request for the Hijri calendar or one of the per-date
\* conversion calls fails, history and recap print no row (none from the
\* calls that succeeded either), print an error and end with a non-zero
\* exit code.
FailedHijriFetchEndsInError ==
  HijriFetchFailed =>
    /\ term.rows = << >>
    /\ Count(term.log, "table") = 0
    /\ term.error # {}
    /\ term.exitCode # 0

\* the calendar request of a recap run failed, and the error left the
\* handler
RecapCalendarFailedWitness ==
  /\ run.command = "recap"
  /\ run.reply = {"failed"}
  /\ term.handled = "runtime"
  /\ term.log = <<"fetch", "fetch", "error">>

\* the value of the option is given and the parser rejects it
Rejected(option, parse(_)) == Given(option) /\ ~parse(Opt(option)).ok

\* a value of --range that is not <digits>d
BadRange(option) ==
  Given(option) /\
    LET v == Opt(option)
    IN ~(Len(v) >= 2 /\ v[Len(v)] = "d" /\ AllDigits(SubSeq(v, 1, Len(v) - 1)))

\* the run was given a malformed date, month, Hijri year or day count that
\* its command reads: history reads all its options; recap reads the
\* Ramadan options in its Ramadan mode (which needs a location) and the
\* range otherwise; schedule reads the month, or else the date
MalformedOption ==
  LET o == run.options
  IN CASE run.command = "history" ->
            \/ Rejected(o.from, parseDateKey)
            \/ Rejected(o.to, parseDateKey)
            \/ Rejected(o.month, parseMonthKey)
            \/ Rejected(o.ramadanStart, parseDateKey)
            \/ Rejected(o.ramadanDays, parseDays)
            \/ Rejected(o.ramadanYear, parseHijriYear)
       [] run.command = "recap" ->
            IF recapUseRamadan(o)
            THEN /\ getConfig(run.store).location # {}
                 /\ \/ Rejected(o.ramadanStart, parseDateKey)
                    \/ Rejected(o.ramadanDays, parseDays)
                    \/ Rejected(o.ramadanYear, parseHijriYear)
            ELSE BadRange(o.range)
       [] run.command = "schedule" ->
            IF Given(o.month) THEN Rejected(o.month, parseMonthInput)
            ELSE Rejected(o.date, parseDateKey)
       [] OTHER -> Rejected(o.date, parseDateKey)

\* no request is sent and nothing is written after an error
NothingAfterError(log) ==
  \A i \in 1..Len(log) : \A j \in (i + 1)..Len(log) :
    log[i] = "error" => log[j] \notin {"fetch", "write"}

\* the run ended with a validation error that the handler caught
EndedInCaughtError ==
  /\ term.error # {}
  /\ term.handled = "handler"
  /\ term.exitCode # 0
  /\ term.rows = << >>
  /\ NothingAfterError(term.log)

\* C17: a run of schedule, history, recap or backfill with a malformed
\* date, month, Hijri year or day count ends with a validation error that
\* the command's handler caught: the message is printed, the exit code is
\* not zero, nothing is fetched or written after the error, and no rows
\* are printed for a default in place of the value.
ValidationErrorsAreCaught ==
  (run.pc = "done" /\ MalformedOption) => EndedInCaughtError

\* history and schedule catch their validation errors
HistoryAndScheduleCatchValidationErrors ==
  (run.pc = "done" /\ run.command \in {"history", "schedule"}
     /\ MalformedOption) => EndedInCaughtError

\* recap and backfill print the message and end with a non-zero exit code
\* too when a Ramadan option or the date is malformed, and do nothing
\* after the error
RecapAndBackfillErrorsEndTheRun ==
  (run.pc = "done" /\ run.command \in {"recap", "backfill"} /\ MalformedOption
     /\ ~BadRange(run.options.range)) =>
    /\ term.error # {}
    /\ term.exitCode # 0
    /\ term.rows = << >>
    /\ NothingAfterError(term.log)

\* the string has the YYYY-MM-DD shape and names a day of the calendar
IsRealDate(value) ==
  /\ IsDateShape(value)
  /\ DateParts(value).month \in 1..12
  /\ DateParts(value).day
       \in 1..DaysInMonth(DateParts(value).year, DateParts(value).month)

\* C18: every date string that the validation of a command accepted (the
\* strings that went on to the filter, the date arithmetic, the request or
\* the store) has the YYYY-MM-DD shape and names a real calendar date.
AcceptedDatesAreReal == \A value \in run.accepted : IsRealDate(value)

\* the dates that backfill accepts are real calendar dates
BackfillDatesAreReal ==
  run.command = "backfill" => \A value \in run.accepted : IsRealDate(value)

\* every accepted date string has the YYYY-MM-DD shape
AcceptedDatesHaveTheShape == \A value \in run.accepted : IsDateShape(value)

\* the conversion that answered the last command succeeded with month 9
ConvertedToRamadan ==
  \E conversion \in cmd.conversion :
    conversion.kind = "ok" /\ conversion.month = 9

\* C19: isRamadanDate never throws; it returns true exactly when the
\* conversion succeeds and reports month 9.  When it returns false, fast
\* ends without a setAttendance call and with the store as it was, and mark
\* and backfill ask no fasting question and store the selected prayers with
\* the fasted flag that the date had before.
IsRamadanDateFallsBackToFalse ==
  (Logged /\ cmd.ramadan # {}) =>
    \A ramadan \in cmd.ramadan :
      /\ ~ramadan.threw
      /\ cmd.outcome # "threw"
      /\ ramadan.value = ConvertedToRamadan
      /\ (cmd.op = "fast" /\ ~ramadan.value) =>
           (cmd.call = {} /\ store = cmd.before)
      /\ (cmd.op \in {"mark", "backfill"} /\ ~ramadan.value) =>
           /\ cmd.answer = {}
           /\ cmd.call # {}
           /\ TheCall.prayers = RecordOf(TheSelection)
           /\ TheCall.fasted = StoredFasted(cmd.before, TheDate)
           /\ StoredFasted(store, TheDate) = StoredFasted(cmd.before, TheDate)
           /\ \A p \in AllPrayers :
                (p \in StoredTrue(store, TheDate)) = (p \in TheSelection)

\* C19 witness: a mark whose conversion request was rejected stored the
\* prayers of a day that was recorded as fasted, and the flag is still there
RejectedConversionKeepsFastedWitness ==
  /\ cmd.op = "mark"
  /\ cmd.conversion = {[kind |-> "rejected"]}
  /\ cmd.call # {}
  /\ StoredFasted(cmd.before, TheDate) = {TRUE}
  /\ StoredFasted(store, TheDate) = {TRUE}

\* the cutoff was resolved from fetched timings whose Isha time parses
ResolvedFromIsha ==
  /\ cutoff.op = "resolveWinRateCutoffDateKey"
  /\ env.config.location # {}
  /\ env.fetch.ok
  /\ parseTimeToMinutes(env.fetch.timings.Isha) # {}

\* the day d has passed its Isha time on the clock of the resolved timezone
\* (the override when one is set, else the timezone of the timings)
PastIshaInResolvedZone(d) ==
  LET wall == env.now + ZoneOffsets[ClockZone]
  IN \/ d < wall \div 1440
     \/ /\ d = wall \div 1440
        /\ \E isha \in parseTimeToMinutes(env.fetch.timings.Isha) :
             wall % 1440 >= isha

\* C20: the date taken as today and the minutes compared with Isha are
\* read in the same resolved timezone (the configured override, else the
\* timezone of the day's timings), so the cutoff is never a day whose Isha
\* time has not passed in that timezone.
CutoffHasPassedIshaInResolvedZone ==
  ResolvedFromIsha =>
    /\ TodayDay = (env.now + ZoneOffsets[ClockZone]) \div 1440
    /\ PastIshaInResolvedZone(DateOfKey(cutoff.result))

\* with a timezone override that resolves, the date and the minutes are
\* read in that timezone and the cutoff has passed its Isha time there
CutoffHasPassedIshaUnderOverride ==
  (ResolvedFromIsha /\ env.config.timezone \cap DOMAIN ZoneOffsets # {}) =>
    /\ TodayDay = (env.now + ZoneOffsets[ClockZone]) \div 1440
    /\ PastIshaInResolvedZone(DateOfKey(cutoff.result))

(***************************************************************************)
(* Properties of the date and time functions.                              *)
(***************************************************************************)
\* the number of the calendar day that a valid date key names
DayNamed(dateKey) ==
  LET p == DateParts(dateKey)
  IN DaysBeforeYear(p.year) + DaysBeforeMonth(p.year, p.month) + (p.day - 1)

\* the sequence has k entries, entry i the key of the day i - 1 days after
\* the start, each key greater as a string than the one before it
IsSequenceFrom(start, k, seq) ==
  /\ Len(seq) = k
  /\ \A i \in 1..Len(seq) :
       /\ seq[i] = CanonKey(DayNamed(start) + i - 1)
       /\ i > 1 => StrLess(seq[i - 1], seq[i])

\* C21: for every valid start date and every day count in 1..30 the
\* start-derived Ramadan sequence has exactly that many entries, entry i
\* (0-based) is the start plus i calendar days, and the entries are strictly
\* ascending and consecutive across month and year ends; from 2026-02-19
\* thirty entries end at 2026-03-20.
RamadanSequenceIsConsecutive ==
  calc.op = "buildRamadanDatesFromStart" =>
    /\ IsSequenceFrom(calc.start, calc.days, calc.result)
    /\ (calc.start = CanonKey(NewDate(2026, 1, 19)) /\ calc.days = 30) =>
         calc.result[30] = CanonKey(NewDate(2026, 2, 20))

\* from a start in the year 1000 or later the sequence is as C21 says
RamadanSequenceIsConsecutiveFrom1000 ==
  (calc.op = "buildRamadanDatesFromStart"
     /\ DateParts(calc.start).year >= 1000) =>
    /\ IsSequenceFrom(calc.start, calc.days, calc.result)
    /\ (calc.start = CanonKey(NewDate(2026, 1, 19)) /\ calc.days = 30) =>
         calc.result[30] = CanonKey(NewDate(2026, 2, 20))

\* C22: for every valid date key d and every integer n,
\* addDays(addDays(d, n), -n) = d, and addDays(d, n) is the canonical
\* YYYY-MM-DD key of the calendar day n days after d.
AddDaysRoundTrips ==
  calc.op = "addDays" =>
    /\ calc.result = CanonKey(DayNamed(calc.dateKey) + calc.days)
    /\ IsRealDate(calc.result)
    /\ calc.back = calc.dateKey

\* when d and the day n days after it lie in the year 1000 or later, the
\* round trip returns d and the result is the canonical key
AddDaysRoundTripsFrom1000 ==
  (calc.op = "addDays"
     /\ DateParts(calc.dateKey).year >= 1000
     /\ DayNamed(calc.dateKey) + calc.days >= FirstFourDigitDay) =>
    /\ calc.result = CanonKey(DayNamed(calc.dateKey) + calc.days)
    /\ IsRealDate(calc.result)
    /\ calc.back = calc.dateKey

\* the hour and minute digits of a string that begins with H:MM or HH:MM,
\* as minutes of the day; {} when the string does not begin that way
LeadingTime(value) ==
  LET IsDigit(i) == i <= Len(value) /\ value[i] \in DigitChars
      IsColon(i) == i <= Len(value) /\ value[i] = ":"
  IN IF IsDigit(1) /\ IsDigit(2) /\ IsColon(3) /\ IsDigit(4) /\ IsDigit(5)
     THEN {(10 * DigitVal(value[1]) + DigitVal(value[2])) * 60
             + 10 * DigitVal(value[4]) + DigitVal(value[5])}
     ELSE IF IsDigit(1) /\ IsColon(2) /\ IsDigit(3) /\ IsDigit(4)
     THEN {DigitVal(value[1]) * 60
             + 10 * DigitVal(value[3]) + DigitVal(value[4])}
     ELSE {}

\* the prayers of a table whose time begins with the pattern
Timed(t) == {p \in DOMAIN t : LeadingTime(t[p]) # {}}

\* C23: parseTimeToMinutes returns hour * 60 + minute for every string that
\* begins with H:MM or HH:MM, whatever follows, and null for every other
\* string.  Its callers skip a null: computePrayerStatus names as current
\* and next only prayers whose time parsed, and still finds them among the
\* others; the win-rate cutoff falls back to yesterday when the Isha time
\* does not parse.
ParseTimeReadsLeadingPattern ==
  /\ calc.op = "parseTimeToMinutes" => calc.result = LeadingTime(calc.value)
  /\ calc.op = "computePrayerStatus" =>
       /\ calc.result.current \subseteq Timed(calc.timings)
       /\ calc.result.next \subseteq Timed(calc.timings)
       /\ Timed(calc.timings) # {} =>
            calc.result.current # {} \/ calc.result.next # {}
       /\ (\E p \in Timed(calc.timings) :
             \E m \in LeadingTime(calc.timings[p]) : m <= calc.now)
            => calc.result.current # {}
       /\ (\E p \in Timed(calc.timings) :
             \E m \in LeadingTime(calc.timings[p]) : calc.now < m)
            => calc.result.next # {}
  /\ (calc.op = "resolveWinRateCutoffDateKey"
        /\ calc.env.fetch.ok
        /\ LeadingTime(calc.env.fetch.timings.Isha) = {}) =>
       calc.result
         = addDays(getTodayDateKey(calc.env, calc.env.config.timezone), -1)

\* C23 witness: "05:12 (WIB)" parses to 312
AnnotatedTimeParsedWitness ==
  /\ calc.op = "parseTimeToMinutes"
  /\ calc.value = <<"0", "5", ":", "1", "2", " ", "(", "W", "I", "B", ")">>
  /\ calc.result = {312}

(***************************************************************************)
(* Properties of the processes.                                            *)
(***************************************************************************)
\* today's calendar date of the running process, as a day number
LocalToday == (clock.now + ZoneOffsets[clock.localZone]) \div (24 * 60)

\* the date key names a day after today
LaterThanToday(dateKey) == DateOfKey(dateKey) > LocalToday

\* the --date option names a real day after today
FutureDateOption ==
  /\ Given(cmd.options.date)
  /\ backfillParseDateKey(Opt(cmd.options.date)).ok
  /\ LaterThanToday(Opt(cmd.options.date))

\* the records of s without the one of dateKey
RecordsBut(s, dateKey) ==
  SelectSeq(s.attendance, LAMBDA entry : entry.key \notin dateKey)

\* C24: backfill never writes a record for a date later than today: a
\* future date, given with --date or typed, gets the reminder and the date
\* prompt again; the date the command goes on with is not later than today,
\* and the only record that the command writes is the one of that date.
BackfillNeverWritesFutureDate ==
  (cmd.op = "backfill" /\ cmd.entry # {}) =>
    /\ \A dateKey \in cmd.dateKey : ~LaterThanToday(dateKey)
    /\ Count(cmd.log, "reminder")
         = cmd.typed + (IF FutureDateOption THEN 1 ELSE 0)
    /\ \A i \in 1..Len(cmd.log) :
         cmd.log[i] = "reminder" =>
           IF i = Len(cmd.log) THEN cmd.pc = "date"
           ELSE cmd.log[i + 1] = "date"
    /\ cmd.pc \in {"select", "fasting"} => cmd.dateKey # {}
    /\ store.attendance # cmd.before.attendance =>
         /\ cmd.dateKey # {}
         /\ cmd.log[Len(cmd.log)] = "write"
         /\ RecordsBut(store, cmd.dateKey) = RecordsBut(cmd.before, cmd.dateKey)

\* a future --date and a future typed date got the reminder, then a date
\* that is not in the future was typed and its record written
BackfillAfterTwoRemindersWitness ==
  /\ cmd.op = "backfill"
  /\ FutureDateOption
  /\ Count(cmd.log, "reminder") = 2
  /\ cmd.log[Len(cmd.log)] = "write"
  /\ store.attendance # cmd.before.attendance

\* something that s held is missing in t: a record of a day, or a value of
\* the config
Removed(s, t) ==
  \/ KeysOf(s.attendance) \ KeysOf(t.attendance) # {}
  \/ \E key \in ConfigKeys : s[key] # {} /\ t[key] = {}

\* the reset command has cleared the store: both confirms were answered
\* yes, the first before the second, and nothing of the store is left
ResetCleared ==
  /\ cmd.op = "reset"
  /\ cmd.log = <<"action", "confirm", "final confirm", "clear">>
  /\ store = EmptyStore

\* the reset command without the clear leaves config and attendance alone,
\* and the clear comes only as in ResetCleared
ResetAsksTwice ==
  cmd.op = "reset" =>
    IF Count(cmd.log, "clear") = 0 THEN store = cmd.before ELSE ResetCleared

\* the import command has replaced the store by the store of its file,
\* after its confirm was answered yes
ImportReplaced ==
  /\ cmd.op = "import"
  /\ cmd.log = <<"action", "import confirm", "import">>
  /\ store = cmd.options.file.store

Pos(log, event) ==
  IF \E i \in 1..Len(log) : log[i] = event
  THEN CHOOSE i \in 1..Len(log) :
         log[i] = event /\ \A j \in 1..(i - 1) : log[j] # event
  ELSE 0

\* the store has a location, a method and a school
IsSetUp(s) == s.location # {} /\ s.method # {} /\ s.school # {}

\* the running process belongs to a command that the hook sets up
NeedsSetup ==
  cmd.op \notin (NoSetupCommands \cup {"none"}) /\ ~cmd.options.help

\* the events of ensureSetup that precede its write when every prompt was
\* answered: the custom timezone is asked only after that choice
AllPromptsAnswered(log) ==
  LET upTo == SubSeq(log, 1, Pos(log, "write") - 1)
      asked == [i \in 1..Len(upTo) |-> upTo[i]]
      plain == <<"setup", "city", "country">>
      after == <<"method", "school", "timezone">>
  IN \E loaded \in {"methods loaded", "fallback list"} :
       \/ asked = plain \o <<loaded>> \o after
       \/ asked = plain \o <<loaded>> \o after \o <<"custom">>

\* the config that the answers of the setup make
AnsweredConfig ==
  [location |-> {[type |-> "city", city |-> cmd.setup.city,
                  country |-> cmd.setup.country]},
   method |-> cmd.setup.method, school |-> cmd.setup.school,
   timezone |-> cmd.setup.timezone]

ActionLog ==
  SubSeq(cmd.log, Pos(cmd.log, "action") + 1, Len(cmd.log))

\* the store as the handler found it
Entered == CHOOSE s \in cmd.entry : TRUE

\* C28: mark, backfill and fast write the store at most once, as their last
\* step after every prompt was answered; a cancel at any prompt, the
\* fasting question after a made selection included, leaves the store as it
\* was when the command started.
LoggingWritesOnceAtTheEnd ==
  (cmd.op \in {"mark", "backfill", "fast"} /\ cmd.entry # {}) =>
    LET log    == ActionLog
        writes == Count(log, "write")
    IN /\ writes <= 1
       /\ writes = 0 => store = Entered
       /\ writes = 1 =>
            /\ log[Len(log)] = "write"
            /\ cmd.pc = "exit"
            /\ Count(log, "cancel") = 0
            /\ cmd.op # "fast" => Count(log, "select") = 1
            /\ cmd.op = "fast" => Count(log, "fasting") = 1
            /\ getConfig(store) = getConfig(Entered)
            /\ RecordsBut(store, cmd.dateKey) = RecordsBut(Entered, cmd.dateKey)
            /\ Lookup(store.attendance, Opt(cmd.dateKey)) # {}
       /\ Count(log, "cancel") > 0 => store = Entered /\ cmd.pc = "exit"

\* the prayers were selected and the fasting question was cancelled: the
\* store is as it was
CancelAtFastingWitness ==
  /\ cmd.op = "mark"
  /\ cmd.selected = {AllPrayers}
  /\ Len(ActionLog) = 3
  /\ ActionLog = <<"select", "fasting", "cancel">>
  /\ store = Entered

\* the options of the running schedule command conflict: --ramadan with
\* --month or --date, --ramadan-year with --month or --date
OptionsConflict ==
  LET o == cmd.options
  IN \E pair \in {<<o.ramadan, o.month>>, <<o.ramadan, o.date>>,
                  <<Given(o.ramadanYear), o.month>>,
                  <<Given(o.ramadanYear), o.date>>} :
       pair[1] /\ Given(pair[2])

\* the method or school that the schedule command saves: the option when
\* it is given, else the stored one
OptionOrStored(option, stored) ==
  IF option = {} THEN stored ELSE {NumberJS(Opt(option)).n}

\* C29: the schedule command stores location, method and school only after
\* the schedule was fetched and rendered and when --no-save is not given; a
\* failed validation, a failed fetch or --no-save leave the stored config
\* unchanged; the timezone override and the attendance records are
\* unchanged in every case; conflicting options are rejected before any
\* prompt, fetch or save.
ScheduleSavesOnlyAfterRender ==
  (cmd.op = "schedule" /\ cmd.entry # {}) =>
    LET log == ActionLog
        o   == cmd.options
    IN /\ store.timezone = Entered.timezone
       /\ store.attendance = Entered.attendance
       /\ Count(log, "write") = 0 => store = Entered
       /\ Count(log, "write") > 0 =>
            /\ o.save
            /\ Count(log, "write") = 1
            /\ Count(log, "error") = 0
            /\ Len(log) >= 3
            /\ SubSeq(log, Len(log) - 2, Len(log)) = <<"fetch", "render", "write">>
            /\ store.location = cmd.location
            /\ store.method = OptionOrStored(o.method, Entered.method)
            /\ store.school = OptionOrStored(o.school, Entered.school)
       /\ (Count(log, "render") > 0 /\ o.save /\ cmd.pc = "exit") =>
            Count(log, "write") = 1
       /\ OptionsConflict =>
            /\ log = <<"error">>
            /\ cmd.pc = "exit"
            /\ cmd.exit = {1}

\* the schedule of another city was rendered and its location, method and
\* school stored; the override and the record are still there
ScheduleSavedWitness ==
  /\ cmd.op = "schedule"
  /\ cmd.entry # {}
  /\ Count(cmd.log, "write") = 1
  /\ store.method = {20}
  /\ store.school = {1}
  /\ store.location # cmd.before.location
  /\ store.timezone = {"Jakarta"}
  /\ store.attendance # << >>

(***************************************************************************)
(* Properties of the interactive menu.                                     *)
(***************************************************************************)
\* the process has shown a menu or is in the menu loop
InMenu(p) ==
  Count(p.log, "menu") > 0 \/ p.pc \in {"main", "sub", "waiting"}

\* C27: the menu is shown only by the process that was started without
\* arguments (ROZA_INTERACTIVE=1), and only after its Home schedule was
\* rendered; every chosen action runs as a child with ROZA_INTERACTIVE=0,
\* and a child shows no menu; after a child has ended, and after Back or
\* cancel in a submenu, which run nothing, the main menu is shown again; the
\* loop ends only on Exit, on cancel at the main menu, or when a child
\* could not be spawned.
MenuOnlyInTheHomeProcess ==
  menu.pc = "running" =>
    /\ Len(menu.procs) <= 2
    /\ \A i \in 1..Len(menu.procs) :
         LET p == menu.procs[i]
         IN /\ InMenu(p) =>
                 /\ p.started = << >>
                 /\ p.env = "1"
                 /\ Pos(p.log, "rendered") # 0
                 /\ Pos(p.log, "rendered") < Pos(p.log, "menu")
            /\ i > 1 =>
                 /\ p.env = "0"
                 /\ ~InMenu(p)
                 /\ menu.procs[i - 1].pc = "waiting"
                 /\ menu.procs[i - 1].log[Len(menu.procs[i - 1].log)] = "spawn"
            /\ \A k \in 1..Len(p.log) :
                 /\ p.log[k] \in {"child done", "back"} =>
                      /\ k < Len(p.log)
                      /\ p.log[k + 1] = "menu"
                 /\ p.log[k] = "back" => p.log[k - 1] = "submenu"
                 /\ p.log[k] = "spawn" =>
                      IF k = Len(p.log) THEN i < Len(menu.procs)
                      ELSE p.log[k + 1] = "child done"
                 /\ (p.log[k] = "menu" /\ k = Len(p.log)) => p.pc = "main"
            /\ (InMenu(p) /\ p.pc = "done") =>
                 p.log[Len(p.log)] \in {"exit", "cancel", "failed to run"}

\* after a Back in a submenu the main menu came again, Home was chosen,
\* and the child has rendered its schedule without a menu
ChildRenderedWithoutMenuWitness ==
  /\ menu.pc = "running"
  /\ Len(menu.procs) = 2
  /\ Count(menu.procs[1].log, "back") = 1
  /\ menu.procs[2].args = <<"schedule">>
  /\ menu.procs[2].log = <<"rendered">>
  /\ menu.procs[2].pc = "done"

\* the prayer after current in the cycle: Fajr when there is no current
\* prayer and after Isha
CyclicSuccessor(current) ==
  IF current = {} THEN "Fajr"
  ELSE LET i == CHOOSE k \in 1..5 : PRAYER_ORDER[k] \in current
       IN PRAYER_ORDER[(i % 5) + 1]

\* C30: when all five times parse and are strictly increasing, then at every
\* minute of the day next is the cyclic successor of current (Fajr when
\* current is undefined or Isha), current and next differ, and minutesAway
\* is between 1 and 1440 + the minutes of Fajr.
NextIsCyclicSuccessorOfCurrent ==
  (calc.op = "computePrayerStatus" /\ StrictlyIncreasing(calc.timings)) =>
    LET status == calc.result
        fajr   == Opt(TableMinutes(calc.timings)[1])
    IN /\ calc.now \in 0..1439
       /\ Cardinality(status.current) <= 1
       /\ status.next = {CyclicSuccessor(status.current)}
       /\ status.current # status.next
       /\ Cardinality(status.minutesAway) = 1
       /\ \A away \in status.minutesAway : away >= 1 /\ away <= 1440 + fajr

\* at Isha's minute of a strictly increasing table Isha is current and
\* next is tomorrow's Fajr, 1440 + Fajr - Isha minutes away
IshaThenFajrWitness ==
  /\ calc.op = "computePrayerStatus"
  /\ StrictlyIncreasing(calc.timings)
  /\ calc.now = 19 * 60 + 15
  /\ calc.result.current = {"Isha"}
  /\ calc.result.next = {"Fajr"}
  /\ calc.result.minutesAway = {1440 + 5 * 60 - (19 * 60 + 15)}

=============================================================================
